---------------------------- MODULE Spec2Model ----------------------------
(***************************************************************************)
(* A model of dayoneXtwitter: the Thread Builder (combine_threads), the    *)
(* Thread Categorizer (get_thread_category), the delivery call (add_post)  *)
(* and the ledger-gated run loop (main / process_single_thread).           *)
(*                                                                         *)
(* Strings are sequences of one-character strings, so that prefix tests,   *)
(* regular-expression matches and lower-casing are computed, not assumed.  *)
(* Identifiers (id_str) are the integers int(id_str) yields; 0 stands for  *)
(* an absent (None) in_reply_to_status_id_str.                             *)
(***************************************************************************)
EXTENDS Integers, Sequences, FiniteSets, TLC

VARIABLES
    \* ---- combine_threads (tweet_parser.py) ----
    tweets,                  \* the archive handed to combine_threads
    pc,                      \* position inside combine_threads
    sorted_roots,            \* roots, ascending by int(id_str) (positions in tweets)
    root_i,                  \* index of the for-loop over sorted_roots
    super_thread_queue,      \* deque of positions in tweets
    current_segment,         \* segment under construction
    media_count_in_segment,
    final_threads,           \* list of finished segments
    processed_ids,           \* ids already assigned to a segment
    \* ---- get_thread_category (tweet_parser.py) ----
    segment,                 \* the segment handed to get_thread_category
    labels,                  \* the labels returned by the calls made so far
    original,                \* the segment as it was before the first call
    \* ---- the run (main.py, processing_utils.py, dayone_entry*.py) ----
    config,                  \* the values of config.py
    archive_threads,         \* the segments combine_threads yields for the archive
    threads,                 \* this run's (shuffled) list of segments
    ledger,                  \* the lines of processed_tweets.txt
    processed_tweet_ids,     \* the set loaded from the ledger at run start
    run,                     \* number of the current run
    rpc,                     \* position of main: "idle", "loop" or "ended"
    loop_i,                  \* index i of main's for-loop (0-based, as in enumerate)
    calls,                   \* the sink invocations of the latest add_post
    cur,                     \* what this run did with each lead id
    prev,                    \* what the previous run did with each lead id
    entry,                   \* the arguments of a direct add_post call
    returned,                \* what that call returned
    titled,                  \* the latest generate_entry_title: its arguments, the
                             \* answers of the summarizer and the title
    \* ---- process_tweet_text_for_markdown_links (tweet_parser.py) ----
    post,                    \* the post handed to the function (mutated in place)
    post_before,             \* the post as it was before the call
    lpc,                     \* "ready" before the call, "done" after it
    \* ---- load_tweets, load_and_prepare_threads ----
    archive_content,         \* the content of the archive file
    load_state,              \* "unread", "loaded", "prepared", or "raised"
    \* ---- aggregate_thread_data (dayone_entry_builder.py) ----
    agg_thread,              \* the segment handed to aggregate_thread_data
    aggregated               \* << >> before the call, << the tuple returned >> after it

threadVars == << tweets, pc, sorted_roots, root_i, super_thread_queue,
                 current_segment, media_count_in_segment, final_threads,
                 processed_ids >>

catVars == << segment, labels, original >>

runVars == << config, archive_threads, threads, ledger, processed_tweet_ids,
              run, rpc, loop_i, calls, cur, prev, entry, returned, titled >>

linkVars == << post, post_before, lpc >>

loadVars == << archive_content, load_state >>

aggVars == << agg_thread, aggregated >>

auxVars == << linkVars, loadVars, aggVars >>

vars == << threadVars, catVars, runVars, auxVars >>

-----------------------------------------------------------------------------
(* Bounds of the model *)

MaxTweets == 3

(* a text of the categorizer's inputs is made of at most MaxPieces pieces *)
MaxPieces == 3

(* get_thread_category is called at most MaxCalls times on one segment *)
MaxCalls == 2

(* an archive of the run model yields at most MaxThreads segments *)
MaxThreads == 2

(* the pipeline is run at most MaxRuns times against the archive *)
MaxRuns == 2

(* a direct add_post call gets at most MaxArgs tags and MaxArgs attachments *)
MaxArgs == 2

(* a lead of the quote-rule model has at most MaxUrls link entities *)
MaxUrls == 2

(* a text of the link rewriter's inputs is made of at most MaxLinkPieces pieces *)
MaxLinkPieces == 3

(* the url entities, and the media entities, of a post are at most MaxLinkEntities *)
MaxLinkEntities == 2

(* an archive file of the loader's inputs holds at most MaxLoaded posts *)
MaxLoaded == 2

(* the traversal of an archive with shared ids is followed for MaxAdmitted posts *)
MaxAdmitted == 6

(* a segment handed to aggregate_thread_data on its own has at most MaxPosts posts *)
MaxPosts == 2

(* combine_threads' default media budget *)
MediaLimit == 26

(* media counts a tweet of the model may carry: none, the two counts of    *)
(* the spec's scenario (10 + 20 > 26) and one that alone exceeds the budget *)
MediaCounts == {0, 10, 20, 27}

-----------------------------------------------------------------------------
(* Generic helpers *)

Range(s) == { s[k] : k \in 1..Len(s) }

RECURSIVE SumSeq(_)
SumSeq(s) == IF s = << >> THEN 0 ELSE Head(s) + SumSeq(Tail(s))

RECURSIVE Flatten(_)
Flatten(ss) == IF ss = << >> THEN << >> ELSE Head(ss) \o Flatten(Tail(ss))

-----------------------------------------------------------------------------
(* combine_threads *)

NoParent == 0

(* _count_media: len(entities.get('media', [])) of the tweet *)
_count_media(p) == tweets[p].media

id_of(p) == tweets[p].id_str

(* tweet_by_id is only ever asked for membership: its key set *)
tweet_by_id == { tweets[p].id_str : p \in 1..Len(tweets) }

(* a tweet is registered as a child when its parent id is set and present *)
IsChild(p) ==
    /\ tweets[p].in_reply_to_status_id_str # NoParent
    /\ tweets[p].in_reply_to_status_id_str \in tweet_by_id

all_child_ids == { tweets[p].id_str : p \in { q \in 1..Len(tweets) : IsChild(q) } }

(* children_map[parent_id]: the children in archive order *)
children_map(parent_id) ==
    SelectSeq([p \in 1..Len(tweets) |-> p],
              LAMBDA p : IsChild(p) /\ tweets[p].in_reply_to_status_id_str = parent_id)

(* sorted(..., key=int(id_str)): a stable insertion sort *)
RECURSIVE InsertById(_, _)
InsertById(p, s) ==
    IF s = << >> THEN << p >>
    ELSE IF id_of(Head(s)) <= id_of(p) THEN << Head(s) >> \o InsertById(p, Tail(s))
    ELSE << p >> \o s

RECURSIVE SortRev(_)
SortRev(s) ==
    IF s = << >> THEN << >>
    ELSE InsertById(s[Len(s)], SortRev(SubSeq(s, 1, Len(s) - 1)))

(* no sort: the list as it stands *)
SortedByIntId_mut(s) == s

SortedByIntId(s) == SortRev(s)

root_tweets ==
    SelectSeq([p \in 1..Len(tweets) |-> p], LAMBDA p : id_of(p) \notin all_child_ids)

(* the children appended to the queue when a tweet is admitted *)
sorted_children(p) == SortedByIntId(children_map(id_of(p)))

(* a split test that looks at the segment only, not at the next post *)
SplitCondition_mut ==
    IF super_thread_queue = << >> \/ current_segment = << >>
    THEN FALSE
    ELSE media_count_in_segment > MediaLimit

(* a split test without the test that the segment is non-empty *)
SplitCondition_anyway ==
    IF super_thread_queue = << >>
    THEN FALSE
    ELSE media_count_in_segment + _count_media(Head(super_thread_queue)) > MediaLimit

(* the SPLIT CONDITION of the inner loop *)
SplitCondition ==
    IF super_thread_queue = << >> \/ current_segment = << >>
    THEN FALSE
    ELSE media_count_in_segment + _count_media(Head(super_thread_queue)) > MediaLimit

(* steps 1 and 2: index the archive, find and sort the roots *)
BuildRoots ==
    /\ pc = "start"
    /\ sorted_roots' = SortedByIntId(root_tweets)
    /\ root_i' = 1
    /\ pc' = "roots"
    /\ UNCHANGED << tweets, super_thread_queue, current_segment,
                    media_count_in_segment, final_threads, processed_ids >>
    /\ UNCHANGED << catVars, runVars, auxVars >>

(* for root in sorted_roots: skip a processed root, else open its queue *)
NextRoot ==
    /\ pc = "roots"
    /\ root_i <= Len(sorted_roots)
    /\ IF id_of(sorted_roots[root_i]) \in processed_ids
       THEN /\ root_i' = root_i + 1
            /\ UNCHANGED << pc, super_thread_queue >>
       ELSE /\ super_thread_queue' = << sorted_roots[root_i] >>
            /\ pc' = "outer"
            /\ UNCHANGED root_i
    /\ UNCHANGED << tweets, sorted_roots, current_segment,
                    media_count_in_segment, final_threads, processed_ids >>
    /\ UNCHANGED << catVars, runVars, auxVars >>

(* while super_thread_queue: start a new segment, or leave for the next root *)
StartSegment ==
    /\ pc = "outer"
    /\ IF super_thread_queue # << >>
       THEN /\ current_segment' = << >>
            /\ media_count_in_segment' = 0
            /\ pc' = "inner"
            /\ UNCHANGED root_i
       ELSE /\ root_i' = root_i + 1
            /\ pc' = "roots"
            /\ UNCHANGED << current_segment, media_count_in_segment >>
    /\ UNCHANGED << tweets, sorted_roots, super_thread_queue, final_threads,
                    processed_ids >>
    /\ UNCHANGED << catVars, runVars, auxVars >>

(* the tweet at the head of the queue fits: pop it, add it, queue its children *)
AdmitTweet ==
    /\ pc = "inner"
    /\ super_thread_queue # << >>
    /\ ~SplitCondition
    /\ LET current_tweet == Head(super_thread_queue) IN
         /\ current_segment' = Append(current_segment, current_tweet)
         /\ processed_ids' = processed_ids \cup { id_of(current_tweet) }
         /\ media_count_in_segment' = media_count_in_segment + _count_media(current_tweet)
         /\ super_thread_queue' = Tail(super_thread_queue) \o sorted_children(current_tweet)
    /\ UNCHANGED << tweets, pc, sorted_roots, root_i, final_threads >>
    /\ UNCHANGED << catVars, runVars, auxVars >>

(* the inner loop ends (queue empty or split): keep the segment if non-empty *)
CloseSegment ==
    /\ pc = "inner"
    /\ (super_thread_queue = << >> \/ SplitCondition)
    /\ final_threads' = IF current_segment # << >>
                        THEN Append(final_threads, current_segment)
                        ELSE final_threads
    /\ pc' = "outer"
    /\ UNCHANGED << tweets, sorted_roots, root_i, super_thread_queue,
                    current_segment, media_count_in_segment, processed_ids >>
    /\ UNCHANGED << catVars, runVars, auxVars >>

(* return final_threads *)
ReturnThreads ==
    /\ pc = "roots"
    /\ root_i > Len(sorted_roots)
    /\ pc' = "done"
    /\ UNCHANGED << tweets, sorted_roots, root_i, super_thread_queue,
                    current_segment, media_count_in_segment, final_threads,
                    processed_ids >>
    /\ UNCHANGED << catVars, runVars, auxVars >>

-----------------------------------------------------------------------------
(* Strings (tweet_parser.py's text handling)                               *)
(* A text is a sequence of one-character strings. The fixed literals of    *)
(* labels and URLs ("Replied to", "https://", ...) are kept as single      *)
(* atoms of such a sequence; no other atoms of the model spell them.       *)

Whitespace == { " ", "\n" }

(* [A-Za-z0-9_] restricted to the characters the model's texts use *)
WordChars == { "a", "A", "b", "B", "x", "R", "T", "u", "_", "1" }

(* str.lower() on one character *)
LowerChar(c) ==
    CASE c = "A" -> "a"
      [] c = "B" -> "b"
      [] c = "R" -> "r"
      [] c = "T" -> "t"
      [] OTHER -> c

Lower(t) == [ k \in 1..Len(t) |-> LowerChar(t[k]) ]

(* text[i], or "" past the end *)
At(t, i) == IF i \in 1..Len(t) THEN t[i] ELSE ""

From(t, i) == IF i > Len(t) THEN << >> ELSE SubSeq(t, i, Len(t))

(* str.startswith *)
StartsWith(t, p) == Len(t) >= Len(p) /\ SubSeq(t, 1, Len(p)) = p

(* p in t *)
Contains(t, p) ==
    \E i \in 1..(Len(t) + 1) :
        i + Len(p) - 1 <= Len(t) /\ SubSeq(t, i, i + Len(p) - 1) = p

(* the end of the longest run of characters of class cls starting at i *)
RECURSIVE SkipClass(_, _, _)
SkipClass(t, i, cls) ==
    IF i <= Len(t) /\ t[i] \in cls THEN SkipClass(t, i + 1, cls) ELSE i

OptQuote(t, i) == IF At(t, i) = "\"" THEN i + 1 ELSE i

(* Optional values: None, or Some(v) *)
None == [ some |-> FALSE, val |-> << >> ]
Some(v) == [ some |-> TRUE, val |-> v ]

(* f"{x}" of an optional string *)
Str(o) == IF o.some THEN o.val ELSE << "N", "o", "n", "e" >>

(* x or y, for an optional string x (None and "" are falsy) *)
OrElse(o, y) == IF o.some /\ o.val # << >> THEN o.val ELSE y

-----------------------------------------------------------------------------
(* Thread Categorizer (tweet_parser.py) *)

(* _build_case_insensitive_name_map(tweet).get(key): the name of the last  *)
(* mention whose lower-cased screen_name is key                            *)
NameMapGet(tweet, key) ==
    LET ms == tweet.user_mentions
        hits == { k \in 1..Len(ms) : Lower(ms[k].screen_name) = key }
    IN  IF hits = {} THEN None
        ELSE Some(ms[CHOOSE k \in hits : \A j \in hits : j <= k].name)

(* name_map.get(h.lower()) or f"@{h}" *)
DisplayName(tweet, h) == OrElse(NameMapGet(tweet, Lower(h)), << "@" >> \o h)

(* _join_names_natural_language *)
RECURSIVE JoinWith(_, _)
JoinWith(names, sep) ==
    IF names = << >> THEN << >>
    ELSE IF Len(names) = 1 THEN names[1]
    ELSE names[1] \o sep \o JoinWith(Tail(names), sep)

_join_names_natural_language(names_list) ==
    IF names_list = << >> THEN << >>
    ELSE IF Len(names_list) = 1 THEN names_list[1]
    ELSE IF Len(names_list) = 2
         THEN names_list[1] \o << " ", "and", " " >> \o names_list[2]
    ELSE JoinWith(SubSeq(names_list, 1, Len(names_list) - 1), << ",", " " >>)
         \o << ",", " ", "and", " " >> \o names_list[Len(names_list)]

\* re.match(r'^RT\s+["]?\@([A-Za-z0-9_]+)["]?:\s*(.*)', text, re.DOTALL):
\* every quantifier is followed by a character outside its class, so the
\* greedy scan below is the only way to match
RetweetMatch(text) ==
    LET sp   == SkipClass(text, 3, Whitespace)
        at   == OptQuote(text, sp)
        hEnd == SkipClass(text, at + 1, WordChars)
        col  == OptQuote(text, hEnd)
        rest == SkipClass(text, col + 1, Whitespace)
    IN  IF /\ At(text, 1) = "R"
           /\ At(text, 2) = "T"
           /\ sp > 3
           /\ At(text, at) = "@"
           /\ hEnd > at + 1
           /\ At(text, col) = ":"
        THEN [ matched |-> TRUE,
               handle |-> SubSeq(text, at + 1, hEnd - 1),
               remainder |-> From(text, rest) ]
        ELSE [ matched |-> FALSE, handle |-> << >>, remainder |-> << >> ]

(* a repost extraction that never resolves the handle to a display name *)
extract_retweet_inplace_mut(tweet) ==
    LET m == RetweetMatch(tweet.full_text) IN
    IF ~m.matched
    THEN [ name |-> None, full_text |-> tweet.full_text ]
    ELSE [ name |-> Some(<< "@" >> \o m.handle), full_text |-> m.remainder ]

(* extract_retweet_inplace: the returned name, and full_text afterwards *)
extract_retweet_inplace(tweet) ==
    LET m == RetweetMatch(tweet.full_text) IN
    IF ~m.matched
    THEN [ name |-> None, full_text |-> tweet.full_text ]
    ELSE [ name |-> Some(DisplayName(tweet, m.handle)), full_text |-> m.remainder ]

\* one re.match(r'\s*["]?\.?@([A-Za-z0-9_]+)["]?\s*', text[offset:])
CalloutMatch(text, offset) ==
    LET sp   == SkipClass(text, offset, Whitespace)
        q    == OptQuote(text, sp)
        dot  == IF At(text, q) = "." THEN q + 1 ELSE q
        hEnd == SkipClass(text, dot + 1, WordChars)
        q2   == OptQuote(text, hEnd)
        fin  == SkipClass(text, q2, Whitespace)
    IN  IF At(text, dot) = "@" /\ hEnd > dot + 1
        THEN [ matched |-> TRUE, handle |-> SubSeq(text, dot + 1, hEnd - 1), end |-> fin ]
        ELSE [ matched |-> FALSE, handle |-> << >>, end |-> offset ]

(* the while loop of extract_callouts_inplace: the leading handles *)
RECURSIVE LeadingHandles(_, _)
LeadingHandles(text, offset) ==
    LET m == CalloutMatch(text, offset) IN
    IF m.matched THEN << m.handle >> \o LeadingHandles(text, m.end) ELSE << >>

(* extract_callouts_inplace: the joined names, or the empty list [] *)
extract_callouts_inplace(tweet) ==
    LET handles == LeadingHandles(tweet.full_text, 1) IN
    IF handles = << >>
    THEN << "[", "]" >>
    ELSE _join_names_natural_language(
             [ k \in 1..Len(handles) |-> DisplayName(tweet, handles[k]) ])

\* re.finditer(r"@([A-Za-z0-9_]+)", text): the handles from position i on
RECURSIVE FindHandles(_, _)
FindHandles(text, i) ==
    IF i > Len(text) THEN << >>
    ELSE IF text[i] = "@" /\ SkipClass(text, i + 1, WordChars) > i + 1
         THEN << SubSeq(text, i + 1, SkipClass(text, i + 1, WordChars) - 1) >>
              \o FindHandles(text, SkipClass(text, i + 1, WordChars))
    ELSE FindHandles(text, i + 1)

Unique_mut(s, seen) == s

(* "Remove duplicates while preserving order" (exact string comparison) *)
RECURSIVE Unique(_, _)
Unique(s, seen) ==
    IF s = << >> THEN << >>
    ELSE IF Head(s) \in seen THEN Unique(Tail(s), seen)
    ELSE << Head(s) >> \o Unique(Tail(s), seen \cup { Head(s) })

NotAReply == << "Not a reply" >>

(* _get_reply_category *)
_get_reply_category(tweet) ==
    IF tweet.in_reply_to_status_id_str = NoParent THEN NotAReply
    ELSE
      LET inText == Unique(FindHandles(tweet.full_text, 1), {})
          unique_handles_in_order ==
              IF inText = << >> /\ tweet.in_reply_to_screen_name # << >>
              THEN << tweet.in_reply_to_screen_name >>
              ELSE inText
      IN  IF unique_handles_in_order = << >> THEN NotAReply
          ELSE << "Replied to", " " >> \o
               _join_names_natural_language(
                   [ k \in 1..Len(unique_handles_in_order) |->
                       DisplayName(tweet, unique_handles_in_order[k]) ])

\* expanded_url matches https?://(www\.)?(twitter\.com|x\.com)/([^/]+)/status/\d+
QuoteMatch(u) ==
    LET h == IF At(u, 2) = "www." THEN 3 ELSE 2 IN
    IF /\ At(u, 1) \in { "http://", "https://" }
       /\ At(u, h) \in { "twitter.com", "x.com" }
       /\ At(u, h + 1) = "/"
       /\ At(u, h + 2) \in WordChars
       /\ At(u, h + 3) = "/status/"
       /\ At(u, h + 4) = "1"
    THEN Some(<< At(u, h + 2) >>)
    ELSE None

(* extract_quote_handle: "@user" of the first url entity that matches *)
RECURSIVE extract_quote_handle_from(_)
extract_quote_handle_from(urls) ==
    IF urls = << >> THEN None
    ELSE IF QuoteMatch(Head(urls).expanded_url).some
         THEN Some(<< "@" >> \o QuoteMatch(Head(urls).expanded_url).val)
    ELSE extract_quote_handle_from(Tail(urls))

extract_quote_handle(tweet) == extract_quote_handle_from(tweet.urls)

(* "https://twitter.com" in expanded_url or "https://x.com" in expanded_url *)
IsTwitterLink(u) ==
    Contains(u, << "https://", "twitter.com" >>) \/ Contains(u, << "https://", "x.com" >>)

has_non_media_twitter_link(tweet) ==
    \E k \in 1..Len(tweet.urls) :
        /\ tweet.urls[k].expanded_url # << >>
        /\ IsTwitterLink(tweet.urls[k].expanded_url)
        /\ tweet.urls[k].url \notin tweet.media_urls_tco

is_retweet(tweet) ==
    \/ StartsWith(tweet.full_text, << "R", "T", " ", "@" >>)
    \/ StartsWith(tweet.full_text, << "R", "T", " ", "\"", "@" >>)

(* a lead is never taken for a reply *)
is_reply_never(tweet) == FALSE

is_reply(tweet) == tweet.in_reply_to_status_id_str # NoParent

(* not is_reply and startswith("@") or startswith(".@") *)
is_callout(tweet) ==
    \/ (~is_reply(tweet) /\ StartsWith(tweet.full_text, << "@" >>))
    \/ StartsWith(tweet.full_text, << ".", "@" >>)

(* get_thread_category(segment): the label returned, and the lead's          *)
(* full_text after the call (extract_retweet_inplace rewrites it)           *)
get_thread_category(thread) ==
    LET first_tweet == thread[1] IN
    IF is_retweet(first_tweet)
    THEN [ category |-> << "Retweet", "ed", " " >>
                         \o Str(extract_retweet_inplace(first_tweet).name),
           full_text |-> extract_retweet_inplace(first_tweet).full_text ]
    ELSE [ full_text |-> first_tweet.full_text,
           category |->
             IF has_non_media_twitter_link(first_tweet) /\ ~is_reply(first_tweet)
             THEN << "Quoted", " " >> \o Str(extract_quote_handle(first_tweet))
             ELSE IF Contains(first_tweet.full_text, << " ", "R", "T", " ", "@" >>)
             THEN << "Old-style quote tweet" >>
             ELSE IF is_reply(first_tweet)
             THEN _get_reply_category(first_tweet)
             ELSE IF is_callout(first_tweet)
             THEN << "Callout to", " " >> \o extract_callouts_inplace(first_tweet)
             ELSE IF Len(thread) > 1
             THEN << "Wrote a thread" >>
             ELSE << "Tweeted" >> ]

(* the title without any call *)
NoTitle == [ category |-> << >>, thread_length |-> 0, answers |-> << >>, title |-> << >> ]

(* the variables of the other operations, in the specifications that do   *)
(* not perform them                                                        *)
LinksIdle ==
    /\ post = << >>
    /\ post_before = << >>
    /\ lpc = "off"

LoadIdle ==
    /\ archive_content = << >>
    /\ load_state = "off"

AggIdle ==
    /\ agg_thread = << >>
    /\ aggregated = << >>

AuxIdle == LinksIdle /\ LoadIdle /\ AggIdle

(* the run's variables, in the specifications that do not run the pipeline *)
RunIdle ==
    /\ config = << >>
    /\ archive_threads = << >>
    /\ threads = << >>
    /\ ledger = << >>
    /\ processed_tweet_ids = {}
    /\ run = 0
    /\ rpc = "off"
    /\ loop_i = 0
    /\ calls = << >>
    /\ cur = << >>
    /\ prev = << >>
    /\ entry = << >>
    /\ returned = << >>
    /\ titled = NoTitle

(* One call of get_thread_category on the segment; the lead keeps the     *)
(* full_text the call left behind                                          *)
Categorize ==
    /\ segment # << >>
    /\ Len(labels) < MaxCalls
    /\ labels' = Append(labels, get_thread_category(segment).category)
    /\ segment' = [ segment EXCEPT ![1].full_text = get_thread_category(segment).full_text ]
    /\ UNCHANGED << original, threadVars, runVars, auxVars >>

(* The texts of the model: up to MaxPieces of these pieces, concatenated *)
Pieces ==
    { << "R", "T", " " >>, << " ", "R", "T", " " >>, << "@", "a" >>, << "@", "B" >>,
      << "\"", "@", "a", "\"" >>, << ":", " ", "x" >>, << " " >>, << "." >>,
      << "x" >>, << "@" >> }

Texts == { Flatten(ps) : ps \in UNION { [ 1..n -> Pieces ] : n \in 1..MaxPieces } }

(* user_mentions of the model: display names are never empty *)
MentionLists ==
    { << >>,
      << [ screen_name |-> << "a" >>, name |-> << "A", "l" >> ] >>,
      << [ screen_name |-> << "A" >>, name |-> << "A", "l" >> ] >>,
      << [ screen_name |-> << "b" >>, name |-> << "B", "o" >> ] >> }

(* url entities of the model: shortlink 1 is a plain link, shortlink 2 is   *)
(* also the shortlink of the lead's media                                   *)
StatusUrl == << "https://", "twitter.com", "/", "u", "/status/", "1" >>
OtherUrl  == << "https://", "example.com", "/", "u" >>

UrlLists ==
    { << >>,
      << [ url |-> 1, expanded_url |-> StatusUrl ] >>,
      << [ url |-> 2, expanded_url |-> StatusUrl ] >>,
      << [ url |-> 1, expanded_url |-> OtherUrl ] >> }

(* the lead is no reply, a reply with no recorded parent handle, or a      *)
(* reply with the parent handle recorded                                   *)
ReplyShapes ==
    { [ in_reply_to_status_id_str |-> NoParent, in_reply_to_screen_name |-> << >> ],
      [ in_reply_to_status_id_str |-> 7, in_reply_to_screen_name |-> << >> ],
      [ in_reply_to_status_id_str |-> 7, in_reply_to_screen_name |-> << "b" >> ] }

Tweet(id, text, reply, mentions, urls, files) ==
    [ id_str |-> id,
      full_text |-> text,
      in_reply_to_status_id_str |-> reply.in_reply_to_status_id_str,
      in_reply_to_screen_name |-> reply.in_reply_to_screen_name,
      user_mentions |-> mentions,
      urls |-> urls,
      media_urls_tco |-> { 2 },
      media_files |-> files,
      hashtags |-> << >>,
      created_at |-> id,
      coordinates |-> None,
      favorite_count |-> 0,
      retweet_count |-> 0 ]

(* a later post of a segment: a plain reply to the lead *)
Follower(id, parent) ==
    Tweet(id, << "x" >>,
          [ in_reply_to_status_id_str |-> parent, in_reply_to_screen_name |-> << "u" >> ],
          << >>, << >>, << >>)

InitCategory ==
    /\ \E text \in Texts, reply \in ReplyShapes, mentions \in MentionLists,
          urls \in UrlLists, n \in 1..2 :
         segment = IF n = 1
                   THEN << Tweet(1, text, reply, mentions, urls, << >>) >>
                   ELSE << Tweet(1, text, reply, mentions, urls, << >>), Follower(2, 1) >>
    /\ original = segment
    /\ labels = << >>
    /\ AuxIdle
    /\ RunIdle
    /\ tweets = << >>
    /\ pc = "idle"
    /\ sorted_roots = << >>
    /\ root_i = 0
    /\ super_thread_queue = << >>
    /\ current_segment = << >>
    /\ media_count_in_segment = 0
    /\ final_threads = << >>
    /\ processed_ids = {}

NextCategory == Categorize

SpecCategory == InitCategory /\ [][NextCategory]_vars

(* The leads of the quote-rule model: few texts, and link entities that    *)
(* are a status permalink, a permalink over http, a page of the platform    *)
(* that is no status, or a foreign page, under a plain (1) or a media (2)   *)
(* shortlink                                                                *)
HttpStatusUrl == << "http://", "twitter.com", "/", "b", "/status/", "1" >>
HomeUrl == << "https://", "twitter.com", "/", "home" >>

QuoteUrlEntities ==
    [ url : { 1, 2 }, expanded_url : { StatusUrl, HttpStatusUrl, HomeUrl, OtherUrl } ]

QuoteTexts ==
    { << "x" >>, << "R", "T", " ", "@", "a", ":", " ", "x" >>, << "@", "a", " ", "x" >> }

InitQuote ==
    /\ \E text \in QuoteTexts, reply \in ReplyShapes, n \in 1..2, m \in 0..MaxUrls :
         \E urls \in [ 1..m -> QuoteUrlEntities ] :
            segment = IF n = 1
                      THEN << Tweet(1, text, reply, << >>, urls, << >>) >>
                      ELSE << Tweet(1, text, reply, << >>, urls, << >>), Follower(2, 1) >>
    /\ original = segment
    /\ labels = << >>
    /\ AuxIdle
    /\ RunIdle
    /\ tweets = << >>
    /\ pc = "idle"
    /\ sorted_roots = << >>
    /\ root_i = 0
    /\ super_thread_queue = << >>
    /\ current_segment = << >>
    /\ media_count_in_segment = 0
    /\ final_threads = << >>
    /\ processed_ids = {}

SpecQuote == InitQuote /\ [][NextCategory]_vars

-----------------------------------------------------------------------------
(* Entry Renderer (dayone_entry_builder.py) *)

CURRENT_USERNAME == << "u" >>

(* "sep".join(parts) *)
RECURSIVE Join(_, _)
Join(parts, sep) ==
    IF parts = << >> THEN << >>
    ELSE IF Len(parts) = 1 THEN parts[1]
    ELSE parts[1] \o sep \o Join(Tail(parts), sep)

(* f"https://twitter.com/{config.CURRENT_USERNAME}/status/{tweet_data['id_str']}" *)
tweet_url(tweet_data) ==
    << "https://", "twitter.com", "/" >> \o CURRENT_USERNAME
       \o << "/status/", ToString(tweet_data.id_str) >>

(* the metrics list of one post *)
metrics(tweet_data) ==
    (IF tweet_data.favorite_count > 0
     THEN << << "[Likes: ", ToString(tweet_data.favorite_count), "](" >>
             \o tweet_url(tweet_data) \o << "/likes) star" >> >>
     ELSE << >>)
    \o (IF tweet_data.retweet_count > 0
        THEN << << "[Retweets: ", ToString(tweet_data.retweet_count), "](" >>
                \o tweet_url(tweet_data) \o << "/retweets) repeat" >> >>
        ELSE << >>)
    \o << << "[Open on twitter.com](" >> \o tweet_url(tweet_data) \o << ")" >> >>

(* created_at counts minutes; " (sent ... later)" past ten minutes *)
time_diff_str(th, k) ==
    IF k > 1 /\ th[k].created_at - th[1].created_at > 10
    THEN << " (sent ", "naturaldelta ", ToString(th[k].created_at - th[1].created_at),
            " later)" >>
    ELSE << >>

(* the block aggregate_thread_data appends to entry_text for post k *)
PostBlock(th, k) ==
    th[k].full_text \o << "\n", "\n" >>
    \o Join(metrics(th[k]), << "   " >>) \o time_diff_str(th, k) \o << "\n" >>
    \o << "_", "_", "_", "\n" >>

(* the coordinate of the last post that has one *)
FirstCoordinate_mut(th) ==
    IF th = << >> THEN None
    ELSE IF th[Len(th)].coordinates.some
         THEN Some(<< th[Len(th)].coordinates.val[2], th[Len(th)].coordinates.val[1] >>)
    ELSE None

RECURSIVE FirstCoordinate(_)
FirstCoordinate(th) ==
    IF th = << >> THEN None
    ELSE IF Head(th).coordinates.some
         THEN Some(<< Head(th).coordinates.val[2], Head(th).coordinates.val[1] >>)
    ELSE FirstCoordinate(Tail(th))

aggregate_thread_data(th) ==
    [ entry_text |-> Flatten([ k \in 1..Len(th) |-> PostBlock(th, k) ]),
      entry_tags |-> Flatten([ k \in 1..Len(th) |-> th[k].hashtags ]),
      entry_media_files |-> Flatten([ k \in 1..Len(th) |-> th[k].media_files ]),
      entry_date_time |-> Some(th[1].created_at),
      entry_coordinate |-> FirstCoordinate(th) ]

(* get_tweet_summary's sentinel for every failure *)
Uncategorized == << "Uncategorized" >>

(* a title that keeps whatever the summarizer answered *)
generate_entry_title_mut(category, thread_length, summary) ==
    IF StartsWith(category, << "Replied to" >>)
    THEN [ category |-> category, thread_length |-> thread_length,
           answers |-> << >>, title |-> category ]
    ELSE IF config.PROCESS_TITLES_WITH_LLM /\ thread_length > 1
         THEN [ category |-> category, thread_length |-> thread_length,
                answers |-> << summary >>, title |-> << "Wrote", " " >> \o summary ]
    ELSE [ category |-> category, thread_length |-> thread_length,
           answers |-> << >>, title |-> category ]

(* generate_entry_title; summary is what get_tweet_summary answers if it   *)
(* is called; yields the title and the answers of the calls made           *)
generate_entry_title(category, thread_length, summary) ==
    IF StartsWith(category, << "Replied to" >>)
    THEN [ category |-> category, thread_length |-> thread_length,
           answers |-> << >>, title |-> category ]
    ELSE IF config.PROCESS_TITLES_WITH_LLM /\ thread_length > 1
         THEN [ category |-> category, thread_length |-> thread_length,
                answers |-> << summary >>,
                title |-> IF summary # Uncategorized
                          THEN << "Wrote", " " >> \o summary ELSE category ]
    ELSE [ category |-> category, thread_length |-> thread_length,
           answers |-> << >>, title |-> category ]

\* the end of one match of (?:@\w+\s*)+ starting at i, or i if there is none
RECURSIVE MentionRunEnd(_, _)
MentionRunEnd(text, i) ==
    IF At(text, i) = "@" /\ SkipClass(text, i + 1, WordChars) > i + 1
    THEN MentionRunEnd(text,
             SkipClass(text, SkipClass(text, i + 1, WordChars), Whitespace))
    ELSE i

\* re.sub(r"(?:@\w+\s*)+", "", text) from position i on
RECURSIVE RemoveMentionRuns(_, _)
RemoveMentionRuns(text, i) ==
    IF i > Len(text) THEN << >>
    ELSE IF MentionRunEnd(text, i) > i
         THEN RemoveMentionRuns(text, MentionRunEnd(text, i))
    ELSE << text[i] >> \o RemoveMentionRuns(text, i + 1)

(* str.strip() *)
RECURSIVE Strip(_)
Strip(text) ==
    IF text = << >> THEN text
    ELSE IF Head(text) \in Whitespace THEN Strip(Tail(text))
    ELSE IF text[Len(text)] \in Whitespace THEN Strip(SubSeq(text, 1, Len(text) - 1))
    ELSE text

(* escape_md: the backslash put before the character at position k (of    *)
(* the inline characters the texts of the model can hold)                  *)
EscapedAt(text, k) ==
    LET lineStart == k = 1 \/ text[k - 1] = "\n"
        firstLine == \A j \in 1..(k - 1) : text[j] # "\n"
        c == text[k]
        lined == IF lineStart /\ c = "#" /\ At(text, k + 1) = " " /\ ~firstLine
                 THEN << "\\" >>
                 ELSE IF lineStart /\ c \in { "-", "+", ">" }
                 THEN << "\\" >>
                 ELSE << >>
        inl == IF c \in { "*", "|", "!" } THEN << "\\" >> ELSE << >>
    IN  lined \o inl \o << c >>

(* escape_md; splitlines() and "\n".join drop one final line break *)
escape_md(text) ==
    LET kept == IF text # << >> /\ text[Len(text)] = "\n"
                THEN SubSeq(text, 1, Len(text) - 1) ELSE text
    IN  Flatten([ k \in 1..Len(kept) |-> EscapedAt(kept, k) ])

(* build_entry_content *)
build_entry_content(entry_text, first_tweet, title) ==
    LET mentions == Unique(FindHandles(entry_text, 1), {})
        rest == Strip(RemoveMentionRuns(entry_text, 1))
        mentions_str == Join([ k \in 1..Len(mentions) |-> << "@" >> \o mentions[k] ],
                             << " " >>)
        framed ==
            IF first_tweet.in_reply_to_status_id_str # NoParent
            THEN rest \o << "\n", "\n" >>
                 \o << "In response to [tweet](", "https://", "twitter.com",
                       "/i/web/status/",
                       ToString(first_tweet.in_reply_to_status_id_str),
                       "), which is part of conversation with " >>
                 \o mentions_str \o << "\n" >>
            ELSE entry_text
    IN  escape_md(<< "#", " " >> \o title \o << "\n", "\n" >> \o framed \o << "\n", "\n" >>)

JOURNAL_NAME == << "Twitter Test" >>

(* a destination choice without the repost switch *)
get_target_journal_mut(category) ==
    IF StartsWith(category, << "Replied to" >>)
    THEN config.REPLY_JOURNAL_NAME
    ELSE Some(JOURNAL_NAME)

(* get_target_journal *)
get_target_journal(category) ==
    IF StartsWith(category, << "Replied to" >>) /\ ~config.REPLY_JOURNAL_NAME.some
    THEN None
    ELSE IF StartsWith(category, << "Retweet" >>) /\ config.IGNORE_RETWEETS
    THEN None
    ELSE IF StartsWith(category, << "Replied to" >>)
    THEN config.REPLY_JOURNAL_NAME
    ELSE Some(JOURNAL_NAME)

-----------------------------------------------------------------------------
(* Delivery (dayone_entry.py) *)

(* the "--attachments" flag of the command line *)
AttachmentsFlag == << "--attachments" >>

(* date_time.strftime("%Y-%m-%d %H:%M:%S") *)
formatted_date(date_time) == << "%Y-%m-%d %H:%M:%S ", ToString(date_time) >>

(* the command add_post builds: a list of strings *)
BuildCommand(text, journal, tags, date_time, coordinate, attachments) ==
    << << "dayone2" >>, << "new" >>, text >>
    \o (IF journal.some /\ journal.val # << >>
        THEN << << "--journal" >>, journal.val >> ELSE << >>)
    \o (IF tags # << >> THEN << << "--tags" >> >> \o tags ELSE << >>)
    \o (IF date_time.some
        THEN << << "--date" >>, formatted_date(date_time.val), << "-z" >>, << "UTC" >> >>
        ELSE << >>)
    \o (IF coordinate.some
        THEN << << "--coordinate" >>, << ToString(coordinate.val[1]) >>,
                << ToString(coordinate.val[2]) >> >>
        ELSE << >>)
    \o (IF attachments # << >> THEN << AttachmentsFlag >> \o attachments ELSE << >>)

(* command.index("--attachments"), 1-based; 0 stands for ValueError *)
AttachmentIndex(command) ==
    IF \E k \in 1..Len(command) : command[k] = AttachmentsFlag
    THEN CHOOSE k \in 1..Len(command) :
            /\ command[k] = AttachmentsFlag
            /\ \A j \in 1..(k - 1) : command[j] # AttachmentsFlag
    ELSE 0

(* command[:attachment_index] *)
command_without_attachments(command) ==
    SubSeq(command, 1, AttachmentIndex(command) - 1)

(* an add_post that repeats every entry with attachments without them *)
add_post_mut(text, journal, tags, date_time, coordinate, attachments, first, second) ==
    LET command == BuildCommand(text, journal, tags, date_time, coordinate, attachments)
    IN  IF attachments # << >>
        THEN [ calls |-> << [ command |-> command, ok |-> first ],
                            [ command |-> command_without_attachments(command),
                              ok |-> second ] >>,
               result |-> second ]
        ELSE [ calls |-> << [ command |-> command, ok |-> first ] >>,
               result |-> first ]

(* add_post: first and second are what _execute_command answers for the    *)
(* first and, if it is made, the second invocation. Yields the invocations *)
(* made and the returned value.                                            *)
add_post(text, journal, tags, date_time, coordinate, attachments, first, second) ==
    LET command == BuildCommand(text, journal, tags, date_time, coordinate, attachments)
    IN  IF ~first /\ attachments # << >>
        THEN IF AttachmentIndex(command) = 0
             THEN [ calls |-> << [ command |-> command, ok |-> first ] >>,
                    result |-> FALSE ]
             ELSE [ calls |-> << [ command |-> command, ok |-> first ],
                                 [ command |-> command_without_attachments(command),
                                   ok |-> second ] >>,
                    result |-> second ]
        ELSE [ calls |-> << [ command |-> command, ok |-> first ] >>,
               result |-> first ]

(* the sequences over S of length at most n *)
SeqsUpTo(S, n) == UNION { [ 1..m -> S ] : m \in 0..n }

(* the arguments of the direct calls of add_post: any strings and lists,   *)
(* the spelling of the flag among the strings                              *)
Entries ==
    [ text : { << "t" >>, AttachmentsFlag },
      journal : { None, Some(<< >>), Some(JOURNAL_NAME), Some(AttachmentsFlag) },
      tags : SeqsUpTo({ << "tag" >>, AttachmentsFlag }, MaxArgs),
      date_time : { None, Some(1) },
      coordinate : { None, Some(<< 1, 2 >>) },
      attachments : SeqsUpTo({ << "m.jpg" >> }, MaxArgs) ]

(* one call add_post(text, journal, tags, date_time, coordinate, attachments) *)
AddPost ==
    /\ entry # << >>
    /\ returned = << >>
    /\ \E first \in BOOLEAN, second \in BOOLEAN :
         LET sent == add_post(entry.text, entry.journal, entry.tags, entry.date_time,
                              entry.coordinate, entry.attachments, first, second)
         IN  /\ calls' = sent.calls
             /\ returned' = << sent.result >>
    /\ UNCHANGED << config, archive_threads, threads, ledger, processed_tweet_ids,
                    run, rpc, loop_i, cur, prev, entry, titled, threadVars, catVars,
                    auxVars >>

-----------------------------------------------------------------------------
(* The run (main.py's loop over processing_utils.py's handlers) *)

Shuffles(sq) ==
    { [ k \in 1..Len(sq) |-> sq[f[k]] ] :
        f \in { g \in [ 1..Len(sq) -> 1..Len(sq) ] :
                  \A a, b \in 1..Len(sq) : a # b => g[a] # g[b] } }

LeadIds == { archive_threads[k][1].id_str : k \in 1..Len(archive_threads) }

(* a load that forgets the ledger *)
load_processed_tweet_ids_mut == {}

(* load_processed_tweet_ids: the set of the ledger's lines *)
load_processed_tweet_ids == Range(ledger)

(* a save that opens the file for writing, not for appending *)
save_processed_tweet_id_mut(tweet_id) == << tweet_id >>

(* save_processed_tweet_id: append one line *)
save_processed_tweet_id(tweet_id) == Append(ledger, tweet_id)

(* what the request to the summarizer may meet: an exception, or a JSON    *)
(* body whose "response" is the text                                       *)
Responses ==
    { [ kind |-> k, text |-> << >> ] :
        k \in { "ConnectionError", "Timeout", "RequestException", "JSONDecodeError" } }
    \cup { [ kind |-> "ok", text |-> t ] :
             t \in { << >>, << " " >>, << " ", "c", "a", "t", "s", "\n" >>, Uncategorized } }

(* get_tweet_summary: the stripped response if there is one, else the sentinel *)
get_tweet_summary(response) ==
    IF response.kind = "ok" /\ Strip(response.text) # << >>
    THEN Strip(response.text)
    ELSE Uncategorized

(* the answers the summarizer may give *)
Summaries == { get_tweet_summary(response) : response \in Responses }

(* main: load and shuffle the segments, load the ledger, enter the loop *)
StartRun ==
    /\ rpc \in { "idle", "ended" }
    /\ run < MaxRuns
    /\ run' = run + 1
    /\ threads' \in Shuffles(archive_threads)
    /\ processed_tweet_ids' = load_processed_tweet_ids
    /\ loop_i' = 0
    /\ rpc' = "loop"
    /\ calls' = << >>
    /\ prev' = cur
    /\ cur' = [ id \in LeadIds |-> "none" ]
    /\ titled' = NoTitle
    /\ UNCHANGED << config, archive_threads, ledger, entry, returned, threadVars,
                    catVars, auxVars >>

(* a cutoff that lets one more segment through *)
Cutoff_mut ==
    config.MAX_THREADS_TO_PROCESS.some /\ loop_i > config.MAX_THREADS_TO_PROCESS.val

(* if MAX_THREADS_TO_PROCESS is not None and i >= MAX_THREADS_TO_PROCESS: break *)
Cutoff ==
    config.MAX_THREADS_TO_PROCESS.some /\ loop_i >= config.MAX_THREADS_TO_PROCESS.val

(* process_single_thread up to the title: the category, the lead's        *)
(* rewritten text and the aggregate                                        *)
Categorized(th) ==
    LET got == get_thread_category(th)
        after == [ th EXCEPT ![1].full_text = got.full_text ]
    IN  [ category |-> got.category, thread |-> after,
          agg |-> aggregate_thread_data(after) ]

(* a delivery that writes the ledger whatever the sink answered *)
Deliver_mut(c, summary, tags, first, second) ==
    LET tweet_id == c.thread[1].id_str
        title == generate_entry_title(c.category, Len(c.thread), summary).title
        entry_text == build_entry_content(c.agg.entry_text, c.thread[1], title)
        sent == add_post(entry_text, Some(JOURNAL_NAME), tags, c.agg.entry_date_time,
                         c.agg.entry_coordinate, c.agg.entry_media_files,
                         first, second)
    IN  [ ledger |-> Append(ledger, tweet_id),
          calls |-> sent.calls,
          outcome |-> IF sent.result THEN "delivered" ELSE "failed" ]

(* a delivery that leaves the ledger alone when the destination is disabled *)
Deliver_unmarked(c, summary, tags, first, second) ==
    LET tweet_id == c.thread[1].id_str
        title == generate_entry_title(c.category, Len(c.thread), summary).title
        entry_text == build_entry_content(c.agg.entry_text, c.thread[1], title)
        target_journal == get_target_journal(c.category)
        sent == add_post(entry_text, target_journal, tags, c.agg.entry_date_time,
                         c.agg.entry_coordinate, c.agg.entry_media_files,
                         first, second)
    IN  IF ~target_journal.some
        THEN [ ledger |-> ledger, calls |-> << >>, outcome |-> "disabled" ]
        ELSE IF sent.result
        THEN [ ledger |-> save_processed_tweet_id(tweet_id),
               calls |-> sent.calls, outcome |-> "delivered" ]
        ELSE [ ledger |-> ledger,
               calls |-> sent.calls, outcome |-> "failed" ]

(* process_single_thread from the title on, for a segment that is not in   *)
(* the ledger; yields the ledger, the sink invocations and the outcome     *)
Deliver(c, summary, tags, first, second) ==
    LET tweet_id == c.thread[1].id_str
        title == generate_entry_title(c.category, Len(c.thread), summary).title
        entry_text == build_entry_content(c.agg.entry_text, c.thread[1], title)
        target_journal == get_target_journal(c.category)
        sent == add_post(entry_text, target_journal, tags, c.agg.entry_date_time,
                         c.agg.entry_coordinate, c.agg.entry_media_files,
                         first, second)
    IN  IF ~target_journal.some
        THEN [ ledger |-> save_processed_tweet_id(tweet_id),
               calls |-> << >>, outcome |-> "disabled" ]
        ELSE IF sent.result
        THEN [ ledger |-> save_processed_tweet_id(tweet_id),
               calls |-> sent.calls, outcome |-> "delivered" ]
        ELSE [ ledger |-> ledger,
               calls |-> sent.calls, outcome |-> "failed" ]

(* no skip test *)
AlreadyProcessed_mut(tweet_id) == FALSE

(* the skip test of process_single_thread *)
AlreadyProcessed(tweet_id) == tweet_id \in processed_tweet_ids

(* one iteration of main's loop: process_single_thread(thread, processed_tweet_ids) *)
ProcessSingleThread ==
    /\ rpc = "loop"
    /\ loop_i < Len(threads)
    /\ ~Cutoff
    /\ LET th == threads[loop_i + 1]
           tweet_id == th[1].id_str
       IN  IF AlreadyProcessed(tweet_id)
           THEN /\ cur' = [ cur EXCEPT ![tweet_id] = "skipped" ]
                /\ calls' = << >>
                /\ titled' = NoTitle
                /\ UNCHANGED << ledger, threads >>
           ELSE LET c == Categorized(th) IN
                /\ threads' = [ threads EXCEPT ![loop_i + 1] = c.thread ]
                /\ \E summary \in Summaries, first \in BOOLEAN, second \in BOOLEAN :
                   \E tags \in Shuffles(Unique(c.agg.entry_tags, {})) :
                      LET d == Deliver(c, summary, tags, first, second) IN
                      /\ ledger' = d.ledger
                      /\ calls' = d.calls
                      /\ cur' = [ cur EXCEPT ![tweet_id] = d.outcome ]
                      /\ titled' = generate_entry_title(c.category, Len(c.thread),
                                                         summary)
    /\ loop_i' = loop_i + 1
    /\ UNCHANGED << config, archive_threads, processed_tweet_ids, run, rpc, prev,
                    entry, returned, threadVars, catVars, auxVars >>

(* the loop ends: every segment was examined, or the cutoff was reached *)
EndRun ==
    /\ rpc = "loop"
    /\ (loop_i >= Len(threads) \/ Cutoff)
    /\ rpc' = "ended"
    /\ UNCHANGED << config, archive_threads, threads, ledger, processed_tweet_ids,
                    run, loop_i, calls, cur, prev, entry, returned, titled,
                    threadVars, catVars, auxVars >>

(* the values config.py may hold *)
Configs ==
    [ REPLY_JOURNAL_NAME : { None, Some(<< "Twitter Replies Test" >>) },
      IGNORE_RETWEETS : BOOLEAN,
      MAX_THREADS_TO_PROCESS : { None } \cup { Some(n) : n \in 1..(MaxThreads - 1) },
      PROCESS_TITLES_WITH_LLM : BOOLEAN ]

NoReply == [ in_reply_to_status_id_str |-> NoParent, in_reply_to_screen_name |-> << >> ]

(* the segments of the run model: a thread of two posts with a hashtag    *)
(* and a media file, a reply with a media file, a repost                   *)
SegmentShape(id, shape) ==
    CASE shape = 1 ->
           << [ Tweet(id, << "x" >>, NoReply, << >>, << >>, << << "m.jpg" >> >>)
                  EXCEPT !.hashtags = << << "tag" >> >> ],
              Follower(id + MaxThreads, id) >>
      [] shape = 2 ->
           << Tweet(id, << "@", "a", " ", "x" >>,
                    [ in_reply_to_status_id_str |-> 7,
                      in_reply_to_screen_name |-> << "a" >> ],
                    << >>, << >>, << << "m.jpg" >> >>) >>
      [] OTHER ->
           << Tweet(id, << "R", "T", " ", "@", "a", ":", " ", "x" >>, NoReply,
                    << >>, << >>, << >>) >>

Shapes == 1..3

(* every run shuffles the segments, so the archives list their shapes in   *)
(* one order only                                                          *)
InitRun ==
    /\ config \in Configs
    /\ \E n \in 1..MaxThreads :
         \E f \in [ 1..n -> Shapes ] :
            /\ \A a, b \in 1..n : a < b => f[a] <= f[b]
            /\ archive_threads = [ id \in 1..n |-> SegmentShape(id, f[id]) ]
    /\ threads = << >>
    /\ ledger = << >>
    /\ processed_tweet_ids = {}
    /\ run = 0
    /\ rpc = "idle"
    /\ loop_i = 0
    /\ calls = << >>
    /\ cur = << >>
    /\ prev = << >>
    /\ entry = << >>
    /\ returned = << >>
    /\ titled = NoTitle
    /\ segment = << >>
    /\ labels = << >>
    /\ AuxIdle
    /\ original = << >>
    /\ tweets = << >>
    /\ pc = "idle"
    /\ sorted_roots = << >>
    /\ root_i = 0
    /\ super_thread_queue = << >>
    /\ current_segment = << >>
    /\ media_count_in_segment = 0
    /\ final_threads = << >>
    /\ processed_ids = {}

Next ==
    \/ StartRun
    \/ ProcessSingleThread
    \/ EndRun

Spec == InitRun /\ [][Next]_vars

(* The control of main's for statement: while the loop runs, either the    *)
(* next iteration is taken or the loop is left. In the loop exactly one of  *)
(* ProcessSingleThread and EndRun is enabled, and a step of theirs is a     *)
(* step of LoopStep.                                                        *)
LoopStep ==
    /\ rpc = "loop"
    /\ \/ loop_i < Len(threads) /\ ~Cutoff /\ loop_i' = loop_i + 1 /\ rpc' = rpc
       \/ (loop_i >= Len(threads) \/ Cutoff) /\ rpc' = "ended" /\ loop_i' = loop_i

(* The run with a sink that answers every call: the loop does not stop in   *)
(* the middle; whether a further run is started is up to the user           *)
SpecRunFair == Spec /\ WF_<< loop_i, rpc >>(LoopStep)

InitAddPost ==
    /\ entry \in Entries
    /\ returned = << >>
    /\ titled = NoTitle
    /\ config = << >>
    /\ archive_threads = << >>
    /\ threads = << >>
    /\ ledger = << >>
    /\ processed_tweet_ids = {}
    /\ run = 0
    /\ rpc = "off"
    /\ loop_i = 0
    /\ calls = << >>
    /\ cur = << >>
    /\ prev = << >>
    /\ segment = << >>
    /\ labels = << >>
    /\ AuxIdle
    /\ original = << >>
    /\ tweets = << >>
    /\ pc = "idle"
    /\ sorted_roots = << >>
    /\ root_i = 0
    /\ super_thread_queue = << >>
    /\ current_segment = << >>
    /\ media_count_in_segment = 0
    /\ final_threads = << >>
    /\ processed_ids = {}

NextAddPost == AddPost

SpecAddPost == InitAddPost /\ [][NextAddPost]_vars

(* The archives of the model: up to MaxTweets tweets with distinct ids,     *)
(* listed oldest first or newest first; each replies to nothing, to any id  *)
(* of 1..MaxTweets+1 (itself, another tweet, or a tweet not in the archive). *)
TweetShape == [ in_reply_to_status_id_str : 0..(MaxTweets + 1), media : MediaCounts ]

ArchiveOf(n, newestFirst, f) ==
    [ p \in 1..n |->
        [ id_str |-> IF newestFirst THEN n + 1 - p ELSE p,
          in_reply_to_status_id_str |-> f[p].in_reply_to_status_id_str,
          media |-> f[p].media ] ]

InitThreads ==
    /\ \E n \in 1..MaxTweets, newestFirst \in BOOLEAN :
         \E f \in [ 1..n -> TweetShape ] :
            tweets = ArchiveOf(n, newestFirst, f)
    /\ pc = "start"
    /\ sorted_roots = << >>
    /\ root_i = 0
    /\ super_thread_queue = << >>
    /\ current_segment = << >>
    /\ media_count_in_segment = 0
    /\ final_threads = << >>
    /\ processed_ids = {}
    /\ segment = << >>
    /\ labels = << >>
    /\ AuxIdle
    /\ original = << >>
    /\ RunIdle

NextThreads ==
    \/ BuildRoots
    \/ NextRoot
    \/ StartSegment
    \/ AdmitTweet
    \/ CloseSegment
    \/ ReturnThreads

SpecThreads == InitThreads /\ [][NextThreads]_vars

(* The archives in which records may share an id: up to MaxTweets records  *)
(* with ids of 1..n, each replying to nothing or to an id of 1..n. The     *)
(* traversal of such an archive need not end, so the model stops admitting *)
(* after MaxAdmitted posts.                                                *)
Admitted == SumSeq([ k \in 1..Len(final_threads) |-> Len(final_threads[k]) ])
            + Len(current_segment)

AdmitTweetBounded == Admitted < MaxAdmitted /\ AdmitTweet

InitSharedIds ==
    /\ \E n \in 1..MaxTweets :
         \E ids \in [ 1..n -> 1..n ], parents \in [ 1..n -> 0..n ], media \in [ 1..n -> { 0, 20 } ] :
            tweets = [ p \in 1..n |->
                         [ id_str |-> ids[p],
                           in_reply_to_status_id_str |-> parents[p],
                           media |-> media[p] ] ]
    /\ pc = "start"
    /\ sorted_roots = << >>
    /\ root_i = 0
    /\ super_thread_queue = << >>
    /\ current_segment = << >>
    /\ media_count_in_segment = 0
    /\ final_threads = << >>
    /\ processed_ids = {}
    /\ segment = << >>
    /\ labels = << >>
    /\ original = << >>
    /\ AuxIdle
    /\ RunIdle

NextSharedIds ==
    \/ BuildRoots
    \/ NextRoot
    \/ StartSegment
    \/ AdmitTweetBounded
    \/ CloseSegment
    \/ ReturnThreads

SpecSharedIds == InitSharedIds /\ [][NextSharedIds]_vars

-----------------------------------------------------------------------------
(* Link and media rewriting (tweet_parser.py)                              *)
(*                                                                         *)
(* A post is [ id_str, full_text, entities |-> [ urls, media ],            *)
(* extended_media, media_files ]; a missing or empty string is << >>.      *)
(* "https://t.co/" is one character of the model's texts, of length 13,    *)
(* and "U+2026" is the horizontal ellipsis.                                 *)

ThreadsIdle ==
    /\ tweets = << >>
    /\ pc = "idle"
    /\ sorted_roots = << >>
    /\ root_i = 0
    /\ super_thread_queue = << >>
    /\ current_segment = << >>
    /\ media_count_in_segment = 0
    /\ final_threads = << >>
    /\ processed_ids = {}

CatIdle ==
    /\ segment = << >>
    /\ labels = << >>
    /\ original = << >>

(* len() of a string of the model *)
StrLen(s) == SumSeq([ k \in 1..Len(s) |-> IF s[k] = "https://t.co/" THEN 13 ELSE 1 ])

(* list.sort(key=..., reverse=True) and sorted(..., reverse=True): stable,  *)
(* elements of equal key keep their order; keys[k] is the key of s[k]      *)
SortedByKeyReverse(s, keys) ==
    LET pos(i) == 1 + Cardinality({ j \in 1..Len(s) :
                          keys[j] > keys[i] \/ (keys[j] = keys[i] /\ j < i) })
    IN  [ p \in 1..Len(s) |-> s[CHOOSE i \in 1..Len(s) : pos(i) = p] ]

(* [A-Za-z0-9] restricted to the characters the model's texts use *)
AlnumChars == WordChars \ { "_" }

\* one match of r'https?://t\.co/[A-Za-z0-9]+(?:\.\.\.|…)' at position i:
\* the position after the match, or 0
TruncatedLinkEnd(text, i) ==
    LET e == SkipClass(text, i + 1, AlnumChars) IN
    IF At(text, i) = "https://t.co/" /\ e > i + 1
    THEN IF At(text, e) = "U+2026" THEN e + 1
         ELSE IF At(text, e) = "." /\ At(text, e + 1) = "." /\ At(text, e + 2) = "."
              THEN e + 3
         ELSE 0
    ELSE 0

\* re.sub(r'https?://t\.co/[A-Za-z0-9]+(?:\.\.\.|…)', '[link truncated]', text)
RECURSIVE ReplaceTruncated(_, _)
ReplaceTruncated(text, i) ==
    IF i > Len(text) THEN << >>
    ELSE IF TruncatedLinkEnd(text, i) > 0
         THEN << "[link truncated]" >> \o ReplaceTruncated(text, TruncatedLinkEnd(text, i))
    ELSE << text[i] >> \o ReplaceTruncated(text, i + 1)

(* re.sub(re.escape(pattern), repl, text) for a non-empty literal pattern  *)
(* and a replacement without backslashes, from position i on               *)
RECURSIVE ReplaceLiteral(_, _, _, _)
ReplaceLiteral(text, pattern, repl, i) ==
    IF i > Len(text) THEN << >>
    ELSE IF i + Len(pattern) - 1 <= Len(text)
            /\ SubSeq(text, i, i + Len(pattern) - 1) = pattern
         THEN repl \o ReplaceLiteral(text, pattern, repl, i + Len(pattern))
    ELSE << text[i] >> \o ReplaceLiteral(text, pattern, repl, i + 1)

(* _process_url_entities *)
_process_url_entities(entities) ==
    LET kept == SelectSeq(entities.urls,
                          LAMBDA u : u.url # << >> /\ u.expanded_url # << >>)
    IN  [ k \in 1..Len(kept) |->
            [ tco_url |-> kept[k].url,
              markdown_link |->
                  << "[" >> \o (IF kept[k].display_url # << >>
                                THEN kept[k].display_url ELSE kept[k].expanded_url)
                  \o << "]", "(" >> \o kept[k].expanded_url \o << ")" >> ] ]

(* the variants of a video that are video/mp4 and carry an integer bitrate *)
Mp4s(media_entity) ==
    SelectSeq(media_entity.variants,
              LAMBDA v : v.content_type = "video/mp4" /\ v.bitrate.present
                         /\ v.bitrate.integer)

(* max(mp4s, key=lambda x: x[0]): the first variant of the greatest bitrate *)
BestVariant(mp4s) ==
    mp4s[CHOOSE k \in 1..Len(mp4s) :
            /\ \A j \in 1..Len(mp4s) : mp4s[j].bitrate.value <= mp4s[k].bitrate.value
            /\ \A j \in 1..(k - 1) : mp4s[j].bitrate.value < mp4s[k].bitrate.value]

(* the item one media entity adds to media_by_tco, if it adds one *)
MediaItem(media_entity) ==
    IF media_entity.url = << >> THEN None
    ELSE IF media_entity.type = "photo"
         THEN IF media_entity.media_url_https # << >>
              THEN Some([ media_url |-> media_entity.media_url_https, type |-> "photo" ])
              ELSE None
    ELSE IF media_entity.type \in { "video", "animated_gif" }
         THEN IF Mp4s(media_entity) # << >>
              THEN Some([ media_url |-> BestVariant(Mp4s(media_entity)).url,
                          type |-> media_entity.type ])
              ELSE None
    ELSE None

(* media_by_tco[tco_url].append(item) on a dict kept in insertion order *)
MapAppend(map, key, item) ==
    IF \E k \in 1..Len(map) : map[k].tco_url = key
    THEN [ k \in 1..Len(map) |->
             IF map[k].tco_url = key
             THEN [ map[k] EXCEPT !.items = Append(@, item) ] ELSE map[k] ]
    ELSE Append(map, [ tco_url |-> key, items |-> << item >> ])

RECURSIVE GroupByTco(_, _)
GroupByTco(media_entities, map) ==
    IF media_entities = << >> THEN map
    ELSE GroupByTco(Tail(media_entities),
                    IF MediaItem(Head(media_entities)).some
                    THEN MapAppend(map, Head(media_entities).url,
                                   MediaItem(Head(media_entities)).val)
                    ELSE map)

(* _process_media_entities: the dict as the sequence of its (key, items) *)
_process_media_entities(tweet_data, entities) ==
    GroupByTco(IF tweet_data.extended_media # << >>
               THEN tweet_data.extended_media ELSE entities.media, << >>)

InMap(media_map, tco_url) == \E k \in 1..Len(media_map) : media_map[k].tco_url = tco_url

(* the for-loop of _replace_links_in_text over the sorted links *)
RECURSIVE ReplaceEachLink(_, _, _)
ReplaceEachLink(text, links, media_map) ==
    IF links = << >> THEN text
    ELSE IF InMap(media_map, Head(links).tco_url)
         THEN ReplaceEachLink(text, Tail(links), media_map)
    ELSE ReplaceEachLink(
             ReplaceLiteral(text, Head(links).tco_url, Head(links).markdown_link, 1),
             Tail(links), media_map)

(* _replace_links_in_text *)
_replace_links_in_text(text, links, media_map) ==
    ReplaceEachLink(
        ReplaceTruncated(text, 1),
        SortedByKeyReverse(links, [ k \in 1..Len(links) |-> StrLen(links[k].tco_url) ]),
        media_map)

(* os.path.basename(media_url) *)
Basename(path) ==
    LET slashes == { k \in 1..Len(path) : path[k] = "/" } IN
    IF slashes = {} THEN path
    ELSE From(path, 1 + CHOOSE k \in slashes : \A j \in slashes : j <= k)

(* s.split('?')[0] *)
BeforeQuery(s) ==
    LET marks == { k \in 1..Len(s) : s[k] = "?" } IN
    IF marks = {} THEN s
    ELSE SubSeq(s, 1, (CHOOSE k \in marks : \A j \in marks : k <= j) - 1)

(* os.path.splitext(name)[0]: the name without its last extension; leading *)
(* dots do not start an extension                                          *)
SplitextRoot(name) ==
    LET dots == { k \in 1..Len(name) :
                    name[k] = "." /\ \E j \in 1..(k - 1) : name[j] # "." } IN
    IF dots = {} THEN name
    ELSE SubSeq(name, 1, (CHOOSE k \in dots : \A j \in dots : j <= k) - 1)

(* the path of one media item of post tweet_id *)
media_path(media_info, tweet_id) ==
    LET media_filename == BeforeQuery(Basename(media_info.media_url))
    IN  << "TWEET_ARCHIVE_PATH", "/", "tweets_media", "/", ToString(tweet_id), "-" >>
        \o (IF media_info.type \in { "video", "animated_gif" }
            THEN SplitextRoot(media_filename) \o << ".", "mp4" >>
            ELSE media_filename)

(* ''.join(['[{attachment}]' for _ in media_items]) *)
attachment_placeholders(media_items) == [ k \in 1..Len(media_items) |-> "[{attachment}]" ]

(* the for-loop of _replace_media_in_text over the sorted keys *)
RECURSIVE ReplaceEachMedia(_, _, _, _)
ReplaceEachMedia(text, entries, tweet_id, media_files) ==
    IF entries = << >> THEN [ processed_text |-> text, media_files |-> media_files ]
    ELSE ReplaceEachMedia(
             ReplaceLiteral(text, Head(entries).tco_url,
                            attachment_placeholders(Head(entries).items), 1),
             Tail(entries), tweet_id,
             media_files \o [ k \in 1..Len(Head(entries).items) |->
                                media_path(Head(entries).items[k], tweet_id) ])

(* _replace_media_in_text *)
_replace_media_in_text(text, media_map, tweet_id) ==
    ReplaceEachMedia(
        text,
        SortedByKeyReverse(media_map,
                           [ k \in 1..Len(media_map) |-> StrLen(media_map[k].tco_url) ]),
        tweet_id, << >>)

(* process_tweet_text_for_markdown_links: the post after the call *)
process_tweet_text_for_markdown_links(tweet_data) ==
    IF tweet_data.full_text = << >> THEN tweet_data
    ELSE
      LET links_to_process == _process_url_entities(tweet_data.entities)
          media_by_tco == _process_media_entities(tweet_data, tweet_data.entities)
          replaced == _replace_media_in_text(
                          _replace_links_in_text(tweet_data.full_text, links_to_process,
                                                 media_by_tco),
                          media_by_tco, tweet_data.id_str)
      IN  [ tweet_data EXCEPT !.full_text = Strip(replaced.processed_text),
                              !.media_files = Some(replaced.media_files) ]

(* one call of process_tweet_text_for_markdown_links on the post *)
ProcessLinks ==
    /\ lpc = "ready"
    /\ post' = process_tweet_text_for_markdown_links(post)
    /\ lpc' = "done"
    /\ UNCHANGED << post_before, loadVars, aggVars, threadVars, catVars, runVars >>

(* the posts of the model: two shortlinks, one a prefix of the other *)
ShortTco == << "https://t.co/", "a" >>

LongTco == << "https://t.co/", "a", "b" >>

LinkPieces == { ShortTco, LongTco, << "x", " " >>, << "U+2026" >> }

LinkTexts == { Flatten(ps) : ps \in UNION { [ 1..n -> LinkPieces ] : n \in 1..MaxLinkPieces } }

UrlEntities ==
    { [ url |-> t, expanded_url |-> e, display_url |-> d ] :
        t \in { ShortTco, LongTco },
        e \in { << >>, << "https://e/", "x" >> },
        d \in { << >>, << "e/", "U+2026" >> } }

Bitrate(n) == [ present |-> TRUE, integer |-> TRUE, value |-> n ]

NoBitrate == [ present |-> FALSE, integer |-> FALSE, value |-> 0 ]

BadBitrate == [ present |-> TRUE, integer |-> FALSE, value |-> 0 ]

VideoUrl(name) == << "https://video.twimg.com/vid", "/", name, ".", "mp4", "?", "tag=1" >>

Variants ==
    { << [ content_type |-> "application/x-mpegURL", bitrate |-> NoBitrate,
           url |-> << "https://video.twimg.com/pl", "/", "p", ".", "m3u8" >> ] >>,
      << [ content_type |-> "video/mp4", bitrate |-> Bitrate(1), url |-> VideoUrl("v1") ],
         [ content_type |-> "video/mp4", bitrate |-> Bitrate(2), url |-> VideoUrl("v2") ],
         [ content_type |-> "video/mp4", bitrate |-> Bitrate(2), url |-> VideoUrl("v3") ],
         [ content_type |-> "video/mp4", bitrate |-> BadBitrate, url |-> VideoUrl("v4") ] >> }

PhotoUrl == << "https://pbs.twimg.com/media", "/", "p", ".", "jpg" >>

MediaEntities ==
    { [ url |-> t, type |-> "photo", media_url_https |-> u, variants |-> << >> ] :
        t \in { ShortTco, LongTco }, u \in { << >>, PhotoUrl } }
    \cup
    { [ url |-> LongTco, type |-> "video", media_url_https |-> PhotoUrl, variants |-> v ] :
        v \in Variants }

LinkPost(text, urls, media, extended) ==
    [ id_str |-> 7, full_text |-> text,
      entities |-> [ urls |-> urls,
                     media |-> IF extended /\ media # << >>
                               THEN << media[1] >> ELSE media ],
      extended_media |-> IF extended THEN media ELSE << >>,
      media_files |-> None ]

InitLinks ==
    /\ \E text \in LinkTexts, extended \in BOOLEAN,
          urls \in UNION { [ 1..n -> UrlEntities ] : n \in 0..MaxLinkEntities },
          media \in UNION { [ 1..n -> MediaEntities ] : n \in 0..MaxLinkEntities } :
            post = LinkPost(text, urls, media, extended)
    /\ post_before = post
    /\ lpc = "ready"
    /\ LoadIdle
    /\ AggIdle
    /\ ThreadsIdle
    /\ CatIdle
    /\ RunIdle

NextLinks == ProcessLinks

SpecLinks == InitLinks /\ [][NextLinks]_vars

-----------------------------------------------------------------------------
(* Loading and preparing the archive (tweet_parser.load_tweets,            *)
(* processing_utils.load_and_prepare_threads)                              *)
(*                                                                         *)
(* The archive's content is a sequence of tokens [ kind, text, value ]:    *)
(* the text before the array, the punctuation of the array, and the JSON   *)
(* objects of the posts. A created_at string is the sequence of its parts. *)

Token(text) == [ kind |-> "text", text |-> text, value |-> << >> ]

Object(value) == [ kind |-> "object", text |-> "{}", value |-> value ]

IsText(tok, text) == tok.kind = "text" /\ tok.text = text

(* content.find("["): the position of the first "[", or 0 *)
FindArrayStart(content) ==
    LET marks == { k \in 1..Len(content) : IsText(content[k], "[") } IN
    IF marks = {} THEN 0 ELSE CHOOSE k \in marks : \A j \in marks : k <= j

(* str.strip() on a token sequence *)
RECURSIVE StripTokens(_)
StripTokens(toks) ==
    IF toks = << >> THEN toks
    ELSE IF IsText(Head(toks), "\n") THEN StripTokens(Tail(toks))
    ELSE IF IsText(toks[Len(toks)], "\n") THEN StripTokens(SubSeq(toks, 1, Len(toks) - 1))
    ELSE toks

(* json.loads on text that starts with "[": the list of the objects of a   *)
(* well-formed array, or None for json.JSONDecodeError                     *)
json_loads(toks) ==
    LET inner == SubSeq(toks, 2, Len(toks) - 1) IN
    IF /\ Len(toks) >= 2
       /\ IsText(toks[1], "[")
       /\ IsText(toks[Len(toks)], "]")
       /\ (inner = << >> \/ Len(inner) % 2 = 1)
       /\ \A k \in 1..Len(inner) :
             IF k % 2 = 1 THEN inner[k].kind = "object" ELSE IsText(inner[k], ",")
    THEN Some([ k \in 1..((Len(inner) + 1) \div 2) |-> inner[2 * k - 1].value ])
    ELSE None

Weekdays == { "Fri", "Sat" }

Months == { "Mar" }

MinuteOf(mm) == CASE mm = "01" -> 1 [] mm = "02" -> 2 [] mm = "03" -> 3 [] OTHER -> 4

\* datetime.strptime(s, '%a %b %d %H:%M:%S %z %Y').replace(tzinfo=None): the
\* minute of the parsed time, or None for ValueError
strptime(s) ==
    IF /\ Len(s) = 10
       /\ s[1] \in Weekdays /\ s[2] \in Months /\ s[3] = "21"
       /\ s[4] = "04" /\ s[5] = ":" /\ s[6] \in { "01", "02", "03", "04" }
       /\ s[7] = ":" /\ s[8] = "00" /\ s[9] = "+0000" /\ s[10] = "2006"
    THEN Some(MinuteOf(s[6]))
    ELSE None

(* a load that does not catch json.JSONDecodeError *)
load_tweets_mut(content) ==
    LET start_index == FindArrayStart(content)
        parsed == json_loads(StripTokens(From(content, start_index)))
    IN  IF start_index = 0 THEN [ raised |-> FALSE, tweets |-> << >> ]
        ELSE IF ~parsed.some THEN [ raised |-> TRUE, tweets |-> << >> ]
        ELSE IF \E k \in 1..Len(parsed.val) : ~strptime(parsed.val[k].created_at).some
             THEN [ raised |-> TRUE, tweets |-> << >> ]
        ELSE [ raised |-> FALSE,
               tweets |-> [ k \in 1..Len(parsed.val) |->
                              [ parsed.val[k] EXCEPT
                                  !.created_at = strptime(parsed.val[k].created_at).val ] ] ]

(* load_tweets: the list returned, or raised when an exception escapes *)
load_tweets(content) ==
    LET start_index == FindArrayStart(content)
        parsed == json_loads(StripTokens(From(content, start_index)))
    IN  IF start_index = 0 THEN [ raised |-> FALSE, tweets |-> << >> ]
        ELSE IF ~parsed.some THEN [ raised |-> FALSE, tweets |-> << >> ]
        ELSE IF \E k \in 1..Len(parsed.val) : ~strptime(parsed.val[k].created_at).some
             THEN [ raised |-> TRUE, tweets |-> << >> ]
        ELSE [ raised |-> FALSE,
               tweets |-> [ k \in 1..Len(parsed.val) |->
                              [ parsed.val[k] EXCEPT
                                  !.created_at = strptime(parsed.val[k].created_at).val ] ] ]

(* process_tweet_text_for_markdown_links on a loaded post; media_files is  *)
(* the list the call stored                                                *)
PreparedPost(tweet_data) ==
    LET done == process_tweet_text_for_markdown_links(
                    [ tweet_data EXCEPT !.media_files = None ])
    IN  [ done EXCEPT !.media_files = IF done.media_files.some
                                      THEN done.media_files.val ELSE << >> ]

(* load_and_prepare_threads up to the call of combine_threads; an          *)
(* exception of load_tweets ends the program                               *)
LoadTweets ==
    /\ load_state = "unread"
    /\ LET loaded == load_tweets(archive_content) IN
         IF loaded.raised
         THEN /\ load_state' = "raised"
              /\ UNCHANGED << tweets, pc >>
         ELSE /\ load_state' = "loaded"
              /\ tweets' = [ k \in 1..Len(loaded.tweets) |-> PreparedPost(loaded.tweets[k]) ]
              /\ pc' = "start"
    /\ UNCHANGED << sorted_roots, root_i, super_thread_queue, current_segment,
                    media_count_in_segment, final_threads, processed_ids >>
    /\ UNCHANGED << archive_content, linkVars, aggVars, catVars, runVars >>

(* load_and_prepare_threads returns the segments to main *)
ReturnPreparedThreads ==
    /\ load_state = "loaded"
    /\ pc = "done"
    /\ load_state' = "prepared"
    /\ archive_threads' = [ k \in 1..Len(final_threads) |->
                              [ j \in 1..Len(final_threads[k]) |-> tweets[final_threads[k][j]] ] ]
    /\ rpc' = "idle"
    /\ UNCHANGED << config, threads, ledger, processed_tweet_ids, run, loop_i, calls,
                    cur, prev, entry, returned, titled >>
    /\ UNCHANGED << archive_content, linkVars, aggVars, catVars, threadVars >>

(* the posts of the model's archives: post k has id k; the second may      *)
(* reply to the first                                                      *)
GoodTimestamp(k) ==
    << "Fri", "Mar", "21", "04", ":", IF k = 1 THEN "01" ELSE IF k = 2 THEN "02" ELSE "03",
       ":", "00", "+0000", "2006" >>

BadTimestamp == << "2006-03-21T04:01:00Z" >>

ArchivePost(id, parent, stamp) ==
    [ Tweet(id, << "x" >>,
            IF parent = NoParent THEN NoReply
            ELSE [ in_reply_to_status_id_str |-> parent,
                   in_reply_to_screen_name |-> << "u" >> ],
            << >>, << >>, << >>) EXCEPT !.created_at = stamp ]
    @@ [ media |-> 0, entities |-> [ urls |-> << >>, media |-> << >> ],
         extended_media |-> << >> ]

RECURSIVE CommaSeparated(_)
CommaSeparated(objects) ==
    IF objects = << >> THEN << >>
    ELSE IF Len(objects) = 1 THEN << Object(objects[1]) >>
    ELSE << Object(objects[1]), Token(",") >> \o CommaSeparated(Tail(objects))

ArchiveHeader == << Token("window.YTD.tweets.part0 = ") >>

(* the well-formed archives *)
PostLists ==
    UNION { { [ k \in 1..n |-> ArchivePost(k, parents[k], IF good[k] THEN GoodTimestamp(k)
                                                          ELSE BadTimestamp) ] :
                parents \in { f \in [ 1..n -> 0..n ] : \A k \in 1..n : f[k] < k },
                good \in [ 1..n -> BOOLEAN ] } : n \in 0..MaxLoaded }

WellFormed(posts) ==
    ArchiveHeader \o << Token("[") >> \o CommaSeparated(posts) \o << Token("]"), Token("\n") >>

(* an archive without "[", and archives whose text from "[" on is not JSON *)
Malformations(posts) ==
    { ArchiveHeader,
      ArchiveHeader \o << Token("[") >> \o CommaSeparated(posts),
      ArchiveHeader \o << Token("[") >> \o CommaSeparated(posts)
          \o << Token(","), Token("]") >>,
      ArchiveHeader \o << Token("[") >> \o CommaSeparated(posts)
          \o << Token("]"), Token(";") >> }

ArchiveContents ==
    { << >> } \cup { WellFormed(posts) : posts \in PostLists }
    \cup UNION { Malformations(posts) : posts \in PostLists }

LoadConfigs ==
    { c \in Configs : ~c.MAX_THREADS_TO_PROCESS.some /\ ~c.IGNORE_RETWEETS }

InitLoad ==
    /\ archive_content \in ArchiveContents
    /\ load_state = "unread"
    /\ LinksIdle
    /\ AggIdle
    /\ ThreadsIdle
    /\ CatIdle
    /\ config \in LoadConfigs
    /\ archive_threads = << >>
    /\ threads = << >>
    /\ ledger \in { << >>, << 1 >> }
    /\ processed_tweet_ids = {}
    /\ run = 0
    /\ rpc = "off"
    /\ loop_i = 0
    /\ calls = << >>
    /\ cur = << >>
    /\ prev = << >>
    /\ entry = << >>
    /\ returned = << >>
    /\ titled = NoTitle

NextLoad ==
    \/ LoadTweets
    \/ BuildRoots
    \/ NextRoot
    \/ StartSegment
    \/ AdmitTweet
    \/ CloseSegment
    \/ ReturnThreads
    \/ ReturnPreparedThreads
    \/ StartRun
    \/ ProcessSingleThread
    \/ EndRun

SpecLoad == InitLoad /\ [][NextLoad]_vars

-----------------------------------------------------------------------------
(* The media budget over the whole preparation (load_and_prepare_threads):  *)
(* the resolver on every post, then combine_threads                        *)

(* _count_media on an archive record: the media list of extended_entities  *)
(* when the record has that key, else that of entities                     *)
MediaCounted(has_extended, extended_media, entities) ==
    IF has_extended THEN Len(extended_media) ELSE Len(entities.media)

(* the archives of count posts of the budget model: post k with id k,      *)
(* replying to nothing or to an earlier post, showing one shortlink        *)
(* with no, one or fourteen photos; extended_entities is missing, is there *)
(* without media, or lists every photo while entities lists the first      *)
BudgetPostLists(count) ==
    LET Photos(n) ==
            [ k \in 1..n |->
                [ url |-> ShortTco, type |-> "photo", variants |-> << >>,
                  media_url_https |->
                      << "https://pbs.twimg.com/media", "/", "p", ToString(k), ".", "jpg" >> ] ]
        Shaped(id, parent, n, ext) ==
            LET entities == [ urls |-> << >>,
                              media |-> IF ext = "listed" /\ n > 0
                                        THEN << Photos(n)[1] >> ELSE Photos(n) ]
                extended_media == IF ext = "listed" THEN Photos(n) ELSE << >>
            IN  [ ArchivePost(id, parent, GoodTimestamp(id))
                    EXCEPT !.full_text = << "x", " " >> \o ShortTco,
                           !.entities = entities,
                           !.extended_media = extended_media,
                           !.media = MediaCounted(ext # "missing", extended_media, entities) ]
    IN  { [ k \in 1..count |-> Shaped(k, parents[k], sizes[k], exts[k]) ] :
            parents \in { f \in [ 1..count -> 0..count ] : \A k \in 1..count : f[k] < k },
            sizes \in [ 1..count -> { 0, 1, 14 } ],
            exts \in [ 1..count -> { "missing", "empty", "listed" } ] }

InitBudget ==
    /\ \E n \in 1..MaxTweets :
          archive_content \in { WellFormed(posts) : posts \in BudgetPostLists(n) }
    /\ load_state = "unread"
    /\ LinksIdle
    /\ AggIdle
    /\ ThreadsIdle
    /\ CatIdle
    /\ RunIdle

NextBudget ==
    \/ LoadTweets
    \/ BuildRoots
    \/ NextRoot
    \/ StartSegment
    \/ AdmitTweet
    \/ CloseSegment
    \/ ReturnThreads

SpecBudget == InitBudget /\ [][NextBudget]_vars

-----------------------------------------------------------------------------
(* Continuation segments through the whole program: the load, the resolver, *)
(* combine_threads, then the run over the segments                          *)

(* the archives of count posts of the continuation model: post k            *)
(* with id k, replying to nothing or to an earlier post, all with no photo  *)
(* or all with fourteen; a post is plain, begins with a mention, begins     *)
(* with a dotted mention, or links to a status                              *)
ContinuationPostLists(count) ==
    LET Photos(n) ==
            [ k \in 1..n |->
                [ url |-> ShortTco, type |-> "photo", variants |-> << >>,
                  media_url_https |->
                      << "https://pbs.twimg.com/media", "/", "p", ToString(k), ".", "jpg" >> ] ]
        Opening(kind) ==
            CASE kind = "mention" -> << "@", "a" >>
              [] kind = "dotted" -> << ".", "@", "a" >>
              [] OTHER -> << "x" >>
        Shaped(id, parent, n, kind) ==
            LET entities ==
                    [ urls |-> IF kind = "link"
                               THEN << [ url |-> << "https://t.co/", "q" >>,
                                         expanded_url |-> StatusUrl,
                                         display_url |-> << >> ] >>
                               ELSE << >>,
                      media |-> Photos(n) ]
            IN  [ ArchivePost(id, parent, GoodTimestamp(id))
                    EXCEPT !.full_text = Opening(kind) \o << " " >> \o ShortTco,
                           !.urls = IF kind = "link"
                                    THEN << [ url |-> 1, expanded_url |-> StatusUrl ] >>
                                    ELSE << >>,
                           !.entities = entities,
                           !.media = MediaCounted(FALSE, << >>, entities) ]
    IN  { [ k \in 1..count |-> Shaped(k, parents[k], size, kinds[k]) ] :
            parents \in { f \in [ 1..count -> 0..count ] : \A k \in 1..count : f[k] < k },
            size \in { 0, 14 },
            kinds \in [ 1..count -> { "plain", "mention", "dotted", "link" } ] }

InitContinuation ==
    /\ \E n \in 1..MaxLoaded :
          archive_content \in { WellFormed(posts) : posts \in ContinuationPostLists(n) }
    /\ load_state = "unread"
    /\ LinksIdle
    /\ AggIdle
    /\ ThreadsIdle
    /\ CatIdle
    /\ config \in { c \in LoadConfigs : ~c.PROCESS_TITLES_WITH_LLM }
    /\ archive_threads = << >>
    /\ threads = << >>
    /\ ledger = << >>
    /\ processed_tweet_ids = {}
    /\ run = 0
    /\ rpc = "off"
    /\ loop_i = 0
    /\ calls = << >>
    /\ cur = << >>
    /\ prev = << >>
    /\ entry = << >>
    /\ returned = << >>
    /\ titled = NoTitle

SpecContinuation == InitContinuation /\ [][NextLoad]_vars

-----------------------------------------------------------------------------
(* Aggregation on its own (dayone_entry_builder.aggregate_thread_data)     *)

(* one call aggregate_thread_data(thread); the function reads the posts    *)
(* and builds new values, it assigns to none of them                       *)
Aggregate ==
    /\ agg_thread # << >>
    /\ aggregated = << >>
    /\ aggregated' = << aggregate_thread_data(agg_thread) >>
    /\ UNCHANGED << agg_thread, linkVars, loadVars, threadVars, catVars, runVars >>

(* the posts of the aggregation inputs: post k has the text "tk", the id   *)
(* k, a time k or k + 20 minutes, and may carry likes, reposts, one or two *)
(* media paths and a GeoJSON point [longitude, latitude]                   *)
AggPost(k, likes, rts, files, coordinates, late) ==
    [ Tweet(k, << "t", ToString(k) >>, NoReply, << >>, << >>, files)
        EXCEPT !.favorite_count = likes,
               !.retweet_count = rts,
               !.coordinates = coordinates,
               !.created_at = IF late THEN k + 20 ELSE k ]

AggFiles(k) ==
    { << >>, << << ToString(k), "-a.jpg" >> >>,
      << << ToString(k), "-a.jpg" >>, << ToString(k), "-b.mp4" >> >> }

AggPosts(k) ==
    { AggPost(k, likes, rts, files, coordinates, late) :
        likes \in { 0, 3 }, rts \in { 0, 2 }, files \in AggFiles(k),
        coordinates \in { None, Some(<< 10 * k, 10 * k + 1 >>) }, late \in BOOLEAN }

InitAggregate ==
    /\ \E n \in 1..MaxPosts :
         \E th \in [ 1..n -> UNION { AggPosts(k) : k \in 1..n } ] :
            /\ \A k \in 1..n : th[k] \in AggPosts(k)
            /\ agg_thread = th
    /\ aggregated = << >>
    /\ LinksIdle
    /\ LoadIdle
    /\ ThreadsIdle
    /\ CatIdle
    /\ RunIdle

NextAggregate == Aggregate

SpecAggregate == InitAggregate /\ [][NextAggregate]_vars

-----------------------------------------------------------------------------
(* Properties of combine_threads *)

(* the ids of the segments returned, segment by segment *)
SegmentIds == [ k \in 1..Len(final_threads) |->
                  [ j \in 1..Len(final_threads[k]) |-> id_of(final_threads[k][j]) ] ]

Occurrences(id) ==
    Cardinality({ kj \in { << k, j >> : k \in 1..Len(SegmentIds), j \in 1..MaxTweets } :
                    kj[2] <= Len(SegmentIds[kj[1]]) /\ SegmentIds[kj[1]][kj[2]] = id })

(* C1: when combine_threads returns, the segments partition the input:     *)
(* every input post id occurs exactly once in exactly one segment, and no  *)
(* segment holds an id that was not in the input.                          *)
C1_SegmentsPartitionInput ==
    pc = "done" =>
        /\ \A id \in tweet_by_id : Occurrences(id) = 1
        /\ \A k \in 1..Len(SegmentIds) : Range(SegmentIds[k]) \subseteq tweet_by_id

MediaOf(seg) == SumSeq([ j \in 1..Len(seg) |-> _count_media(seg[j]) ])

(* C2: every segment built so far holds at most MediaLimit media items,    *)
(* unless it consists of exactly one post; a post whose own media count    *)
(* exceeds the budget is alone in its segment.                             *)
C2_SegmentWithinBudget ==
    \A k \in 1..Len(final_threads) :
        LET seg == final_threads[k] IN
        /\ (Len(seg) = 1 \/ MediaOf(seg) <= MediaLimit)
        /\ \A j \in 1..Len(seg) : _count_media(seg[j]) > MediaLimit => Len(seg) = 1

(* C2's case: the build returned a segment of several posts that carries   *)
(* media, a split happened, and a post over the budget sits alone          *)
C2_Witness ==
    /\ pc = "done"
    /\ \E k \in 1..Len(final_threads) :
          Len(final_threads[k]) >= 2 /\ MediaOf(final_threads[k]) > 0
    /\ \E k \in 1..Len(final_threads) :
          Len(final_threads[k]) = 1 /\ MediaOf(final_threads[k]) > MediaLimit
    /\ Len(final_threads) < Len(tweets)

-----------------------------------------------------------------------------
(* Properties of get_thread_category *)

Lead == original[1]

(* the rule a label belongs to *)
RuleOfLabel(l) ==
    IF StartsWith(l, << "Retweet", "ed", " " >>) THEN "repost"
    ELSE IF StartsWith(l, << "Quoted", " " >>) THEN "quote"
    ELSE IF l = << "Old-style quote tweet" >> THEN "old-style quote"
    ELSE IF StartsWith(l, << "Replied to", " " >>) THEN "reply"
    ELSE IF StartsWith(l, << "Callout to", " " >>) THEN "callout"
    ELSE IF l = << "Wrote a thread" >> THEN "thread"
    ELSE IF l = << "Tweeted" >> THEN "post"
    ELSE "none"

(* the first rule, in the order of the hierarchy, that the lead matches *)
FirstRule ==
    IF is_retweet(Lead) THEN "repost"
    ELSE IF has_non_media_twitter_link(Lead) /\ ~is_reply(Lead) THEN "quote"
    ELSE IF Contains(Lead.full_text, << " ", "R", "T", " ", "@" >>) THEN "old-style quote"
    ELSE IF is_reply(Lead) THEN "reply"
    ELSE IF is_callout(Lead) THEN "callout"
    ELSE IF Len(original) > 1 THEN "thread"
    ELSE "post"

(* C8: a segment of two or more posts whose lead is a reply, and matches   *)
(* none of the repost, quote-link and old-style-quote rules, is labelled   *)
(* "Replied to ..." and never "Wrote a thread"; in general the first rule  *)
(* that matches, in the order of the hierarchy, decides the label.         *)
C8_CategoryPriority ==
    Len(labels) >= 1 =>
        /\ (Len(original) >= 2 /\ FirstRule = "reply") =>
               (RuleOfLabel(labels[1]) = "reply" /\ labels[1] # << "Wrote a thread" >>)
        /\ RuleOfLabel(labels[1]) = FirstRule

(* C9: two successive calls of get_thread_category on the same segment     *)
(* return the same label.                                                  *)
C9_SameLabelTwice == Len(labels) >= 2 => labels[2] = labels[1]

(* the repost markers of a handle: RT @h: with the handle optionally quoted *)
RepostMarkers(h) ==
    { << "R", "T", " ", "@" >> \o h \o << ":" >>,
      << "R", "T", " ", "\"", "@" >> \o h \o << "\"", ":" >>,
      << "R", "T", " ", "\"", "@" >> \o h \o << ":" >>,
      << "R", "T", " ", "@" >> \o h \o << "\"", ":" >> }

RECURSIVE DropLeadingSpace(_)
DropLeadingSpace(t) ==
    IF t # << >> /\ Head(t) \in Whitespace THEN DropLeadingSpace(Tail(t)) ELSE t

(* the handles a text can name: its runs of word characters *)
HandlesIn(t) ==
    { SubSeq(t, i, j) : i \in 1..Len(t), j \in 1..Len(t) } \
    { h \in { SubSeq(t, i, j) : i \in 1..Len(t), j \in 1..Len(t) } :
        h = << >> \/ \E k \in 1..Len(h) : h[k] \notin WordChars }

MatchingNames(tweet, h) ==
    { tweet.user_mentions[k].name :
        k \in { j \in 1..Len(tweet.user_mentions) :
                  Lower(tweet.user_mentions[j].screen_name) = Lower(h) } }

(* C10: when the lead text begins with a repost marker for handle h, the   *)
(* first call returns the repost label with the display name of the lead's *)
(* mention whose handle equals h case-insensitively, or "@h" when no       *)
(* mention matches, and leaves as the lead's text the original text with   *)
(* the marker removed.                                                     *)
C10_RepostRule ==
    Len(labels) >= 1 =>
        \A h \in HandlesIn(Lead.full_text) : \A mk \in RepostMarkers(h) :
            StartsWith(Lead.full_text, mk) =>
                /\ \/ /\ MatchingNames(Lead, h) # {}
                      /\ \E nm \in MatchingNames(Lead, h) :
                            labels[1] = << "Retweet", "ed", " " >> \o nm
                   \/ /\ MatchingNames(Lead, h) = {}
                      /\ labels[1] = << "Retweet", "ed", " ", "@" >> \o h
                /\ Len(labels) = 1 =>
                      segment[1].full_text =
                          DropLeadingSpace(From(Lead.full_text, Len(mk) + 1))

(* C10's case: "RT @B: x" with the mention b -> "Bo" was categorized as a  *)
(* repost of "Bo" and its text is now "x"                                  *)
C10_Witness ==
    /\ Len(labels) = 1
    /\ Lead.full_text = << "R", "T", " ", "@", "B", ":", " ", "x" >>
    /\ Lead.user_mentions = << [ screen_name |-> << "b" >>, name |-> << "B", "o" >> ] >>
    /\ labels[1] = << "Retweet", "ed", " ", "B", "o" >>
    /\ segment[1].full_text = << "x" >>

(* the link entities of the lead that are status permalinks under a        *)
(* shortlink that is not a media shortlink                                  *)
QuotePermalinks ==
    { k \in 1..Len(Lead.urls) :
        /\ QuoteMatch(Lead.urls[k].expanded_url).some
        /\ Lead.urls[k].url \notin Lead.media_urls_tco }

(* C11: for a lead that is not a repost the label is "Quoted ..." exactly  *)
(* when the lead is no reply and has a link entity that is a status         *)
(* permalink under a non-media shortlink, and the handle named is the user  *)
(* of such a link.                                                          *)
C11_QuoteRule ==
    (Len(labels) >= 1 /\ ~is_retweet(Lead)) =>
        /\ StartsWith(labels[1], << "Quoted" >>) <=>
              (~is_reply(Lead) /\ QuotePermalinks # {})
        /\ StartsWith(labels[1], << "Quoted" >>) =>
              \E k \in QuotePermalinks :
                 labels[1] = << "Quoted", " ", "@" >>
                                \o QuoteMatch(Lead.urls[k].expanded_url).val

(* the position in H of the first occurrence of h *)
FirstIndex(H, h) == CHOOSE k \in 1..Len(H) : H[k] = h /\ \A j \in 1..(k - 1) : H[j] # h

(* the distinct elements of H, in the order of their first occurrences *)
InFirstOccurrenceOrder(H) ==
    [ n \in 1..Cardinality(Range(H)) |->
        CHOOSE h \in Range(H) :
            Cardinality({ g \in Range(H) : FirstIndex(H, g) < FirstIndex(H, h) }) = n - 1 ]

(* the display name of the lead's mention whose handle is h up to case, or "@h" *)
ResolvedName(h) ==
    IF MatchingNames(Lead, h) # {} THEN CHOOSE nm \in MatchingNames(Lead, h) : TRUE
    ELSE << "@" >> \o h

(* "A", "A and B", "A, B, and C" *)
RECURSIVE CommaList(_)
CommaList(names) ==
    IF Len(names) = 1 THEN names[1]
    ELSE names[1] \o << ",", " " >> \o CommaList(Tail(names))

NaturalList(names) ==
    CASE Len(names) = 1 -> names[1]
      [] Len(names) = 2 -> names[1] \o << " ", "and", " " >> \o names[2]
      [] OTHER -> CommaList(SubSeq(names, 1, Len(names) - 1))
                  \o << ",", " ", "and", " " >> \o names[Len(names)]

(* the handles a reply label names: the mentions of the lead's text, or the *)
(* recorded parent handle when the text has none                            *)
ReplyHandles ==
    IF FindHandles(Lead.full_text, 1) # << >>
    THEN InFirstOccurrenceOrder(FindHandles(Lead.full_text, 1))
    ELSE IF Lead.in_reply_to_screen_name # << >> THEN << Lead.in_reply_to_screen_name >>
    ELSE << >>

C13_CalloutRule ==
    (/\ Len(labels) >= 1
     /\ FirstRule = "callout"
     /\ StartsWith(Lead.full_text, << "@" >>)
     /\ LeadingHandles(Lead.full_text, 1) # << >>) =>
        LET leading == InFirstOccurrenceOrder(LeadingHandles(Lead.full_text, 1)) IN
        labels[1] = << "Callout to", " " >> \o
            NaturalList([ k \in 1..Len(leading) |-> ResolvedName(leading[k]) ])

(* the lead matches none of the repost, quote-link, old-style-quote, reply  *)
(* and callout rules (a callout begins with a run of mentions)              *)
NoNamedRuleMatches ==
    /\ ~is_retweet(Lead)
    /\ ~has_non_media_twitter_link(Lead)
    /\ ~Contains(Lead.full_text, << " ", "R", "T", " ", "@" >>)
    /\ ~is_reply(Lead)
    /\ LeadingHandles(Lead.full_text, 1) = << >>

(* C14: a segment whose lead matches none of the repost, quote-link,        *)
(* old-style-quote, reply and callout rules is labelled "Wrote a thread"    *)
(* exactly when it has more than one post, and "Tweeted" otherwise.         *)
C14_FallThrough ==
    (Len(labels) >= 1 /\ NoNamedRuleMatches) =>
        labels[1] = IF Len(original) > 1 THEN << "Wrote a thread" >> ELSE << "Tweeted" >>

-----------------------------------------------------------------------------
(* Properties of the run and of add_post *)

(* the step of the run that examines the segment at position loop_i *)
ExaminesNext == rpc = "loop" /\ loop_i' = loop_i + 1

NextThread == threads[loop_i + 1]

NextLeadId == NextThread[1].id_str

(* the segment led by id lies before the position the loop has reached *)
Examined(id) == \E k \in 1..loop_i : threads[k][1].id_str = id

InRun == rpc \in { "loop", "ended" }

SinkInvoked(outcome) == outcome \in { "delivered", "failed" }

(* C3 as stated: whatever the configuration and whatever the first run    *)
(* did, a run that follows another run hands no entry to the sink.         *)
C3_SecondRunDeliversNothing ==
    (InRun /\ prev # << >>) => \A id \in DOMAIN cur : ~SinkInvoked(cur[id])

(* the previous run examined every segment and no delivery of it failed *)
PreviousRunClean ==
    /\ InRun
    /\ prev # << >>
    /\ \A id \in DOMAIN prev : prev[id] \in { "skipped", "disabled", "delivered" }

(* C3 amended: if the first run examined every segment (no cutoff left    *)
(* one out) and none of its deliveries failed, the second run against the  *)
(* same archive and the ledger it left hands no entry to the sink.         *)
C3_CleanRunThenNothingDelivered ==
    PreviousRunClean =>
        /\ calls = << >>
        /\ \A id \in DOMAIN cur : cur[id] \in { "none", "skipped" }

C3_Witness ==
    /\ PreviousRunClean
    /\ rpc = "ended"
    /\ \E id \in DOMAIN prev : prev[id] = "delivered" /\ cur[id] = "skipped"

(* C4: the set a run skips by is the ledger as it stood when the run      *)
(* started, and a segment whose lead id is in it is not categorized (its   *)
(* lead is left as loaded), not handed to the sink and not written to the  *)
(* ledger.                                                                 *)
C4_LedgeredLeadSkipped ==
    /\ [][(rpc' = "loop" /\ loop_i' = 0) => processed_tweet_ids' = Range(ledger)]_vars
    /\ [][(ExaminesNext /\ NextLeadId \in processed_tweet_ids) =>
             /\ threads' = threads
             /\ calls' = << >>
             /\ ledger' = ledger
             /\ cur'[NextLeadId] = "skipped"]_vars

C4_Witness ==
    /\ InRun
    /\ \E id \in DOMAIN cur : cur[id] = "skipped" /\ id \in processed_tweet_ids

(* C5 as stated: a segment whose delivery failed is not in the ledger     *)
(* after the run, and the next run hands it to the sink again.             *)
C5_FailedDeliveryRetriedNextRun ==
    /\ InRun => \A id \in DOMAIN cur : cur[id] = "failed" => id \notin Range(ledger)
    /\ (rpc = "ended" /\ prev # << >>) =>
          \A id \in DOMAIN prev : prev[id] = "failed" => SinkInvoked(cur[id])

(* C5 amended: a segment whose delivery failed is not in the ledger after *)
(* the run; the next run does not skip it, and hands it to the sink again  *)
(* if it examines it (the cutoff may end that run before it does).         *)
C5_FailedDeliveryEligibleNextRun ==
    /\ InRun => \A id \in DOMAIN cur : cur[id] = "failed" => id \notin Range(ledger)
    /\ (InRun /\ prev # << >>) =>
          \A id \in DOMAIN prev :
             prev[id] = "failed" =>
                /\ id \notin processed_tweet_ids
                /\ cur[id] \in { "none", "delivered", "failed" }
                /\ Examined(id) => SinkInvoked(cur[id])

C5_Witness ==
    /\ InRun
    /\ prev # << >>
    /\ \E id \in DOMAIN prev : prev[id] = "failed" /\ Examined(id) /\ cur[id] = "delivered"

(* the command of an entry without its attachments *)
ReducedCommand ==
    BuildCommand(entry.text, entry.journal, entry.tags, entry.date_time,
                 entry.coordinate, << >>)

(* C6: add_post invokes the sink at most twice; a second time exactly     *)
(* when the first invocation failed and there are attachments; the second  *)
(* invocation has the text, journal, tags, date and coordinate of the      *)
(* first and no attachments; the result is that of the last invocation.    *)
C6_RetryWithoutAttachments ==
    returned # << >> =>
        /\ Len(calls) \in 1..2
        /\ Len(calls) = 2 <=> (~calls[1].ok /\ entry.attachments # << >>)
        /\ calls[1].command =
             BuildCommand(entry.text, entry.journal, entry.tags, entry.date_time,
                          entry.coordinate, entry.attachments)
        /\ Len(calls) = 2 => calls[2].command = ReducedCommand
        /\ returned[1] = calls[Len(calls)].ok

(* the destination of the category is disabled by the configuration *)
DisabledDestination(category) ==
    \/ StartsWith(category, << "Replied to" >>) /\ ~config.REPLY_JOURNAL_NAME.some
    \/ StartsWith(category, << "Retweet" >>) /\ config.IGNORE_RETWEETS

-----------------------------------------------------------------------------
(* Properties of the link and media rewriting *)

TextBefore == post_before.full_text

MediaMapBefore == _process_media_entities(post_before, post_before.entities)

LinksBefore == _process_url_entities(post_before.entities)

(* the shortlinks of the post that have a replacement: the media           *)
(* shortlinks with a resolvable item and the standard links with an        *)
(* expansion                                                               *)
Shortlinks ==
    { MediaMapBefore[k].tco_url : k \in 1..Len(MediaMapBefore) }
    \cup { LinksBefore[k].tco_url : k \in 1..Len(LinksBefore) }

(* the replacement of a shortlink: one placeholder per grouped media item, *)
(* or the Markdown link of the first url entity that carries it            *)
ReplacementOf(t) ==
    IF InMap(MediaMapBefore, t)
    THEN LET e == MediaMapBefore[CHOOSE k \in 1..Len(MediaMapBefore) :
                                     MediaMapBefore[k].tco_url = t]
         IN  [ k \in 1..Len(e.items) |-> "[{attachment}]" ]
    ELSE LinksBefore[CHOOSE k \in 1..Len(LinksBefore) :
                        /\ LinksBefore[k].tco_url = t
                        /\ \A j \in 1..(k - 1) : LinksBefore[j].tco_url # t].markdown_link

OccursAt(text, t, i) == i + Len(t) - 1 <= Len(text) /\ SubSeq(text, i, i + Len(t) - 1) = t

(* every occurrence of a shortlink replaced by that shortlink's own        *)
(* replacement, the longest shortlink that occurs at a position winning    *)
RECURSIVE EachByItsOwn(_, _)
EachByItsOwn(text, i) ==
    IF i > Len(text) THEN << >>
    ELSE LET here == { t \in Shortlinks : OccursAt(text, t, i) } IN
         IF here = {} THEN << text[i] >> \o EachByItsOwn(text, i + 1)
         ELSE LET t == CHOOSE u \in here : \A v \in here : Len(v) <= Len(u)
              IN  ReplacementOf(t) \o EachByItsOwn(text, i + Len(t))

(* two shortlinks of the post, one inside the other, the longer one in the text *)
NestedShortlinks ==
    \E s \in Shortlinks, l \in Shortlinks :
        s # l /\ Contains(l, s) /\ Contains(TextBefore, l)

(* C15: when one shortlink of a post is a substring of another and both    *)
(* occur in the text (no link of which is truncated), standard links or    *)
(* media links alike, the text after the rewriting is the text in which    *)
(* every occurrence of the longer shortlink carries the longer shortlink's *)
(* own replacement, unaltered by the substitution of the shorter one.      *)
C15_LongestShortlinkFirst ==
    (lpc = "done" /\ NestedShortlinks /\ ReplaceTruncated(TextBefore, 1) = TextBefore) =>
        post.full_text = Strip(EachByItsOwn(TextBefore, 1))

(* the number of attachment placeholders of a text *)
Placeholders(text) == Cardinality({ k \in 1..Len(text) : text[k] = "[{attachment}]" })

(* the file name of a media item: the last segment of its address, without *)
(* the query, a video or animated item with the extension mp4              *)
ItemFileName(item) ==
    LET name == BeforeQuery(Basename(item.media_url)) IN
    IF item.type = "photo" THEN name ELSE SplitextRoot(name) \o << ".", "mp4" >>

(* the paths of the items one media shortlink groups, in item order *)
GroupPaths(group) ==
    [ k \in 1..Len(group.items) |->
        << "TWEET_ARCHIVE_PATH", "/", "tweets_media", "/", ToString(post_before.id_str), "-" >>
        \o ItemFileName(group.items[k]) ]

(* C16: after the rewriting of a post with media shortlinks (no link of    *)
(* whose text is truncated), every occurrence of a media shortlink that    *)
(* groups k resolvable items has become exactly k attachment placeholders, *)
(* and the post's media list is made of the k paths "<id>-<filename>" of   *)
(* each media shortlink, in item order.                                    *)
C16_MediaResolution ==
    (lpc = "done" /\ MediaMapBefore # << >>
       /\ ReplaceTruncated(TextBefore, 1) = TextBefore) =>
        /\ Placeholders(post.full_text) = Placeholders(EachByItsOwn(TextBefore, 1))
        /\ post.media_files.some
        /\ \E groups \in Shuffles(MediaMapBefore) :
              post.media_files.val =
                  Flatten([ g \in 1..Len(groups) |-> GroupPaths(groups[g]) ])

-----------------------------------------------------------------------------
(* Properties of the loading of the archive *)

(* the archive has no array start marker, or its text from the marker on   *)
(* is not a JSON array                                                     *)
Malformed == archive_content \notin { WellFormed(posts) : posts \in PostLists }

(* C17: when the archive is malformed, load_tweets returns the empty list  *)
(* without raising, and the run that follows builds no segment, never      *)
(* invokes the sink and leaves the ledger as it was.                       *)
C17_MalformedArchiveRecovered ==
    /\ [](Malformed =>
            /\ load_state # "raised"
            /\ tweets = << >>
            /\ final_threads = << >>
            /\ archive_threads = << >>
            /\ threads = << >>
            /\ calls = << >>)
    /\ [][Malformed => ledger' = ledger]_vars

(* a run over an archive whose array is not valid JSON has ended *)
C17_Witness ==
    /\ Malformed
    /\ FindArrayStart(archive_content) > 0
    /\ load_state = "prepared"
    /\ run = 1
    /\ rpc = "ended"

(* the posts of a well-formed archive *)
ArchivePosts == CHOOSE posts \in PostLists : archive_content = WellFormed(posts)

(* those of them whose created_at matches the timestamp format *)
WellStamped == SelectSeq(ArchivePosts, LAMBDA t : t.created_at # BadTimestamp)

(* C18: when a post of a well-formed archive has a created_at that does    *)
(* not match the timestamp format, loading does not raise and returns the  *)
(* remaining posts, for which the run goes on.                             *)
C18_BadTimestampRecovered ==
    (~Malformed /\ Len(WellStamped) < Len(ArchivePosts) /\ load_state # "unread") =>
        /\ load_state # "raised"
        /\ [ k \in 1..Len(tweets) |-> tweets[k].id_str ]
             = [ k \in 1..Len(WellStamped) |-> WellStamped[k].id_str ]

-----------------------------------------------------------------------------
(* Properties of combine_threads on archives whose records may share an id *)

(* the posts a step adds to the traversal queue *)
Enqueued ==
    IF pc = "roots" /\ pc' = "outer" THEN { Head(super_thread_queue') }
    ELSE IF pc = "inner" /\ Len(current_segment') > Len(current_segment)
         THEN Range(sorted_children(Head(super_thread_queue)))
    ELSE {}

(* C19: whatever the post list (a post that replies to itself, reply       *)
(* pointers that form a cycle, two records that share an id), no step of   *)
(* combine_threads adds to its traversal queue a post whose id is already  *)
(* marked visited.                                                         *)
C19_NoVisitedEnqueued ==
    [][ \A p \in Enqueued : id_of(p) \notin processed_ids' ]_vars

-----------------------------------------------------------------------------
(* Properties of the title *)

(* the sink was handed an entry whose text begins with the heading "# title" *)
DeliveredWithTitle(title) ==
    /\ calls # << >>
    /\ \E k \in 1..Len(calls[1].command) :
          StartsWith(calls[1].command[k], << "#", " " >> \o title \o << "\n" >>)

(* C20: generate_entry_title does not ask the summarizer for a segment of  *)
(* one post and asks it at most once for a longer one; when the summarizer *)
(* is disabled, is not asked, or answers the sentinel "Uncategorized", the *)
(* title is the bare category label; and when it answered the sentinel the *)
(* entry is still rendered under that title and handed to the sink.        *)
C20_SummarizerUse ==
    titled # NoTitle =>
        /\ titled.thread_length = 1 => titled.answers = << >>
        /\ Len(titled.answers) <= 1
        /\ (\/ ~config.PROCESS_TITLES_WITH_LLM
            \/ titled.answers = << >>
            \/ titled.answers = << Uncategorized >>) => titled.title = titled.category
        /\ (titled.answers = << Uncategorized >> /\ ~DisabledDestination(titled.category)) =>
              DeliveredWithTitle(titled.category)

(* the summarizer was asked about a thread and failed; the entry went out  *)
(* under the category label                                                *)
C20_Witness ==
    /\ titled.thread_length > 1
    /\ titled.answers = << Uncategorized >>
    /\ titled.title = << "Wrote a thread" >>
    /\ DeliveredWithTitle(<< "Wrote a thread" >>)
    /\ \E id \in DOMAIN cur : cur[id] = "delivered"

-----------------------------------------------------------------------------
(* Properties of the cutoff *)

(* the lead id of the segment at position k of this run's list *)
LeadAt(k) == threads[k][1].id_str

(* the number of positions the cutoff lets a run examine *)
CutoffCount ==
    IF config.MAX_THREADS_TO_PROCESS.val < Len(threads)
    THEN config.MAX_THREADS_TO_PROCESS.val ELSE Len(threads)

(* C21: in a run with a cutoff of N segments only the first N segments of  *)
(* the run's list are examined, a segment skipped for the ledger counting  *)
(* as one of them; no segment after position N is categorized, rendered,   *)
(* delivered or added to the ledger; and a step of the loop finishes the   *)
(* segment it examines and touches no other segment.                       *)
C21_CountCutoff ==
    /\ []((InRun /\ config.MAX_THREADS_TO_PROCESS.some) =>
            /\ loop_i <= CutoffCount
            /\ rpc = "ended" => loop_i = CutoffCount
            /\ \A k \in 1..Len(threads) : (cur[LeadAt(k)] # "none") <=> k <= loop_i
            /\ \A k \in (CutoffCount + 1)..Len(threads) :
                  /\ threads[k] \in Range(archive_threads)
                  /\ LeadAt(k) \notin Range(ledger) \ processed_tweet_ids)
    /\ [][ExaminesNext =>
            /\ cur'[NextLeadId] \in { "skipped", "disabled", "delivered", "failed" }
            /\ \A id \in DOMAIN cur \ { NextLeadId } : cur'[id] = cur[id]
            /\ \A k \in 1..Len(threads) : k # loop_i + 1 => threads'[k] = threads[k]
            /\ Range(ledger') \subseteq Range(ledger) \cup { NextLeadId }]_vars

(* a run with a cutoff of one ended after skipping the first of two        *)
(* segments; the second, a repost that is not in the ledger, is untouched  *)
C21_Witness ==
    /\ rpc = "ended"
    /\ config.MAX_THREADS_TO_PROCESS = Some(1)
    /\ Len(threads) = 2
    /\ cur[LeadAt(1)] = "skipped"
    /\ cur[LeadAt(2)] = "none"
    /\ LeadAt(2) \notin Range(ledger)
    /\ is_retweet(threads[2][1])

-----------------------------------------------------------------------------
(* Properties of the traversal order *)

Positions == 1..Len(tweets)

(* the post a reply points to, when that post is in the archive *)
ParentOf(p) == CHOOSE q \in Positions : id_of(q) = tweets[p].in_reply_to_status_id_str

(* the ancestor n steps up, stopping at a post that is no reply to the archive *)
RECURSIVE AncestorAt(_, _)
AncestorAt(p, n) == IF n = 0 \/ ~IsChild(p) THEN p ELSE AncestorAt(ParentOf(p), n - 1)

(* the reply pointers form no cycle: every chain of parents ends at a root *)
Acyclic == \A p \in Positions : ~IsChild(AncestorAt(p, Len(tweets)))

ConversationOf(p) == AncestorAt(p, Len(tweets))

(* the posts of a set, in ascending order of their ids (ids are unique) *)
Ascending(S) ==
    [ n \in 1..Cardinality(S) |->
        CHOOSE p \in S : Cardinality({ q \in S : id_of(q) < id_of(p) }) = n - 1 ]

Replies(p) == { q \in Positions : IsChild(q) /\ ParentOf(q) = p }

(* the breadth-first traversal that continues from a frontier *)
RECURSIVE BreadthFirst(_)
BreadthFirst(frontier) ==
    IF frontier = << >> THEN << >>
    ELSE << Head(frontier) >>
         \o BreadthFirst(Tail(frontier) \o Ascending(Replies(Head(frontier))))

Roots == { p \in Positions : ~IsChild(p) }

TraversalOrder ==
    Flatten([ n \in 1..Cardinality(Roots) |-> BreadthFirst(<< Ascending(Roots)[n] >>) ])

Returned == Flatten(final_threads)

-----------------------------------------------------------------------------
(* Properties of the splitting *)

(* the next queued post would take the segment under construction past the budget *)
WouldExceed ==
    /\ current_segment # << >>
    /\ super_thread_queue # << >>
    /\ media_count_in_segment + _count_media(Head(super_thread_queue)) > MediaLimit

(* C23: while a conversation's queue is not empty the segment under        *)
(* construction is closed exactly when it is non-empty and its media count *)
(* plus that of the next queued post exceeds the budget, and that post     *)
(* leads the next segment; so of two consecutive segments S, T of one      *)
(* conversation media(S) + media(first post of T) exceeds the budget,      *)
(* while every later post of a segment fitted when it was admitted.        *)
C23_GreedySplit ==
    /\ [][(pc = "inner" /\ super_thread_queue # << >>) =>
            IF WouldExceed
            THEN /\ pc' = "outer"
                 /\ final_threads' = Append(final_threads, current_segment)
                 /\ super_thread_queue' = super_thread_queue
            ELSE /\ pc' = "inner"
                 /\ final_threads' = final_threads
                 /\ current_segment' = Append(current_segment, Head(super_thread_queue))]_vars
    /\ [][(pc = "outer" /\ pc' = "inner") =>
            (current_segment' = << >> /\ media_count_in_segment' = 0)]_vars
    /\ [](\A k \in 1..Len(final_threads) :
            LET seg == final_threads[k] IN
            /\ \A j \in 2..Len(seg) :
                  MediaOf(SubSeq(seg, 1, j - 1)) + _count_media(seg[j]) <= MediaLimit
            /\ (k < Len(final_threads)
                /\ ConversationOf(final_threads[k + 1][1]) = ConversationOf(seg[1])) =>
                  MediaOf(seg) + _count_media(final_threads[k + 1][1]) > MediaLimit)

(* a lead with 10 media and its reply with 20: the reply starts the second segment *)
C23_Witness ==
    /\ pc = "done"
    /\ Len(tweets) = 2
    /\ tweets[1] = [ id_str |-> 1, in_reply_to_status_id_str |-> NoParent, media |-> 10 ]
    /\ tweets[2] = [ id_str |-> 2, in_reply_to_status_id_str |-> 1, media |-> 20 ]
    /\ final_threads = << << 1 >>, << 2 >> >>

-----------------------------------------------------------------------------
(* Properties of the aggregation *)

Aggregated == aggregated[1]

(* the first position at or after i where part occurs in body, or 0 *)
FirstOccurrence(body, part, i) ==
    LET hits == { j \in i..(Len(body) - Len(part) + 1) :
                    SubSeq(body, j, j + Len(part) - 1) = part } IN
    IF hits = {} THEN 0 ELSE CHOOSE j \in hits : \A h \in hits : j <= h

(* the parts occur in body one after the other, from position i on *)
RECURSIVE InOrder(_, _, _)
InOrder(body, parts, i) ==
    IF parts = << >> THEN TRUE
    ELSE LET j == FirstOccurrence(body, Head(parts), i) IN
         j > 0 /\ InOrder(body, Tail(parts), j + Len(Head(parts)))

(* what the body has to show of one post: its text, then its like count    *)
(* and its repost count when they are not zero                             *)
Shown(t) ==
    << t.full_text >>
    \o (IF t.favorite_count # 0
        THEN << << "[Likes: ", ToString(t.favorite_count), "](" >> >> ELSE << >>)
    \o (IF t.retweet_count # 0
        THEN << << "[Retweets: ", ToString(t.retweet_count), "](" >> >> ELSE << >>)

Located == { k \in 1..Len(agg_thread) : agg_thread[k].coordinates.some }

-----------------------------------------------------------------------------
(* Properties of the ledger writes *)

(* the sink's answer to the last invocation of the step *)
SinkSucceeded == calls' # << >> /\ calls'[Len(calls')].ok

(* C25: during a run the ledger only grows, by the lead id of the segment  *)
(* being examined, and only when the sink has answered success for that    *)
(* segment's entry or the segment's destination is disabled; after a       *)
(* failed delivery nothing is appended, and no line already in the ledger  *)
(* is removed or rewritten.                                                *)
C25_LedgerWriteOrdering ==
    /\ [][/\ Len(ledger') >= Len(ledger)
          /\ SubSeq(ledger', 1, Len(ledger)) = ledger]_vars
    /\ [][ledger' # ledger =>
            /\ ExaminesNext
            /\ ledger' = Append(ledger, NextLeadId)
            /\ \/ SinkSucceeded /\ cur'[NextLeadId] = "delivered"
               \/ /\ calls' = << >>
                  /\ DisabledDestination(get_thread_category(NextThread).category)]_vars
    /\ [][(ExaminesNext /\ calls' # << >> /\ ~SinkSucceeded) => ledger' = ledger]_vars

(* a run ended with one segment delivered and in the ledger and another    *)
(* whose delivery failed and which is not in the ledger                    *)
C25_Witness ==
    /\ rpc = "ended"
    /\ Len(ledger) = 1
    /\ \E id \in DOMAIN cur : cur[id] = "delivered" /\ ledger = << id >>
    /\ \E id \in DOMAIN cur : cur[id] = "failed" /\ id \notin Range(ledger)

-----------------------------------------------------------------------------
(* Properties of the deliveries over several runs *)

(* the sink answered success to an invocation of the step *)
Successes == { k \in 1..Len(calls') : calls'[k].ok }

(* C26: over the runs against one archive with unique post ids the sink    *)
(* answers success for at most one entry per lead id: a step gets at most  *)
(* one success, gets it only for a lead id that is not in the ledger, and  *)
(* puts that id into the ledger, where every id stays and occurs once; so  *)
(* no segment is delivered in two runs, although the set a run skips by is *)
(* loaded once at its start.                                               *)
C26_AtMostOnceDelivery ==
    /\ [][ExaminesNext =>
            /\ Cardinality(Successes) <= 1
            /\ Successes # {} =>
                  /\ NextLeadId \notin Range(ledger)
                  /\ NextLeadId \in Range(ledger')
                  /\ cur'[NextLeadId] = "delivered"
            /\ cur'[NextLeadId] = "delivered" => Successes # {}]_vars
    /\ [][Range(ledger) \subseteq Range(ledger')]_vars
    /\ [](\A i, j \in 1..Len(ledger) : ledger[i] = ledger[j] => i = j)
    /\ [](InRun =>
            \A id \in DOMAIN cur :
               /\ cur[id] = "delivered" => id \in Range(ledger)
               /\ (prev # << >> /\ prev[id] = "delivered") =>
                     (id \in processed_tweet_ids /\ cur[id] \in { "none", "skipped" }))

(* the second run delivered the segment whose delivery had failed in the   *)
(* first and skipped the one the first had delivered                       *)
C26_Witness ==
    /\ run = 2
    /\ rpc = "ended"
    /\ \E id \in DOMAIN cur : prev[id] = "delivered" /\ cur[id] = "skipped"
    /\ \E id \in DOMAIN cur : prev[id] = "failed" /\ cur[id] = "delivered"
    /\ Len(ledger) = 2

-----------------------------------------------------------------------------
(* Properties of the media budget over the preparation *)

(* the posts of the k-th segment returned *)
SegmentPosts(k) == [ j \in 1..Len(final_threads[k]) |-> tweets[final_threads[k][j]] ]

(* C27: every segment of two or more posts that the resolver followed by   *)
(* combine_threads produces carries at most MediaLimit media paths in its  *)
(* rendered entry, because the count used for splitting is never smaller   *)
(* than the number of media paths the resolver stored for the post.        *)
C27_AttachmentBound ==
    /\ \A p \in 1..Len(tweets) : _count_media(p) >= Len(tweets[p].media_files)
    /\ pc = "done" =>
          \A k \in 1..Len(final_threads) :
             Len(final_threads[k]) >= 2 =>
                Len(aggregate_thread_data(SegmentPosts(k)).entry_media_files) <= MediaLimit

-----------------------------------------------------------------------------
(* Properties of the labels as a whole *)

(* the part of a label after the words of its rule *)
NamePart(l) ==
    IF RuleOfLabel(l) = "repost" THEN From(l, 4)
    ELSE IF RuleOfLabel(l) \in { "quote", "reply", "callout" } THEN From(l, 3)
    ELSE << >>

(* a missing value or an empty list, as the label formats them *)
MissingName(name) ==
    \/ name = << >>
    \/ name = Str(None)
    \/ name = << "[", "]" >>

(* C28: every call of get_thread_category on a non-empty segment returns    *)
(* one label of the fixed hierarchy (repost, quote, old-style quote, reply, *)
(* callout, thread, plain post), and the name part of a label that carries  *)
(* a name is never empty, a missing value or an empty list.                 *)
C28_WellFormedCategory ==
    \A k \in 1..Len(labels) :
        /\ RuleOfLabel(labels[k]) # "none"
        /\ RuleOfLabel(labels[k]) \in { "repost", "quote", "reply", "callout" } =>
               ~MissingName(NamePart(labels[k]))

-----------------------------------------------------------------------------
(* Properties of the segments a split leaves behind *)

(* segment k of the builder's list is not the first of its conversation *)
ContinuationAt(k) ==
    \E j \in 1..(k - 1) :
        ConversationOf(final_threads[j][1]) = ConversationOf(final_threads[k][1])

(* id leads a segment that is not the first of its conversation *)
ContinuationLead(id) ==
    \E k \in 1..Len(final_threads) : ContinuationAt(k) /\ id_of(final_threads[k][1]) = id

(* C29: the lead of every segment that is not the first segment of its     *)
(* conversation replies to a post of the archive, so the segment is never  *)
(* labelled "Wrote a thread", "Tweeted", "Quoted ..." or "Callout to ...";  *)
(* and when no reply journal is set, the run hands no such segment that is *)
(* labelled "Replied to ..." to the sink and appends its lead id to the    *)
(* ledger.                                                                 *)
C29_ContinuationReplyLed ==
    /\ [](load_state = "prepared" =>
            \A k \in 1..Len(archive_threads) :
               ContinuationAt(k) =>
                  /\ IsChild(final_threads[k][1])
                  /\ is_reply(archive_threads[k][1])
                  /\ RuleOfLabel(get_thread_category(archive_threads[k]).category)
                        \notin { "thread", "post", "quote", "callout" })
    /\ [][(/\ ExaminesNext
           /\ ContinuationLead(NextLeadId)
           /\ NextLeadId \notin processed_tweet_ids
           /\ ~config.REPLY_JOURNAL_NAME.some
           /\ RuleOfLabel(get_thread_category(NextThread).category) = "reply") =>
             /\ calls' = << >>
             /\ ledger' = Append(ledger, NextLeadId)
             /\ cur'[NextLeadId] = "disabled"]_vars

(* a run without reply journal has skipped a continuation segment whose     *)
(* lead begins with a dotted mention and links to nothing                   *)
C29_Witness ==
    /\ load_state = "prepared"
    /\ InRun
    /\ ~config.REPLY_JOURNAL_NAME.some
    /\ \E k \in 1..Len(final_threads) :
          /\ ContinuationAt(k)
          /\ StartsWith(archive_threads[k][1].full_text, << ".", "@" >>)
          /\ cur[id_of(final_threads[k][1])] = "disabled"
          /\ id_of(final_threads[k][1]) \in Range(ledger)

-----------------------------------------------------------------------------
(* Properties of a whole run *)

NoCutoff == ~config.MAX_THREADS_TO_PROCESS.some

(* C30: without a cutoff, and with a sink that answers every call, a run    *)
(* ends; it examines the segments one at a time in list order, each exactly *)
(* once; and when no delivery of the run failed, the ledger holds the lead  *)
(* id of every segment at the end of the run.                               *)
C30_RunCompletion ==
    /\ (rpc = "loop" /\ NoCutoff) ~> (rpc = "ended")
    /\ [][ExaminesNext =>
            /\ cur[NextLeadId] = "none"
            /\ cur'[NextLeadId] # "none"
            /\ \A id \in LeadIds \ { NextLeadId } : cur'[id] = cur[id]]_vars
    /\ [][rpc = "loop" /\ rpc' = "ended" /\ NoCutoff =>
            /\ loop_i = Len(threads)
            /\ \A id \in LeadIds : cur[id] # "none"]_vars
    /\ [](rpc = "ended" /\ NoCutoff /\ (\A id \in LeadIds : cur[id] # "failed") =>
            LeadIds \subseteq Range(ledger))

(* a run without cutoff has ended: it delivered one segment and skipped    *)
(* another whose destination is disabled, and the ledger holds both ids     *)
C30_Witness ==
    /\ rpc = "ended"
    /\ NoCutoff
    /\ Len(threads) >= 2
    /\ loop_i = Len(threads)
    /\ \E a, b \in LeadIds : cur[a] = "delivered" /\ cur[b] = "disabled"
    /\ LeadIds \subseteq Range(ledger)

=============================================================================
